---- MODULE Spec2Model ----
(***************************************************************************)
(* Model of kern_comm_lib's Logger (base/log/logger.py), its log handlers  *)
(* (base/log/log_handlers.py) and the mutexes that guard them              *)
(* (base/threads/mutex.py).                                                *)
(*                                                                         *)
(* Logger instances are numbered: DefaultLogger (0) is the instance kept   *)
(* in Logger._default_instance, and t (a thread) is the instance kept in   *)
(* thread t's Logger._thread_local.logger.  Every method is split into the *)
(* steps at which another thread can observe or interfere with it: a mutex *)
(* acquisition, the guarded region, the release, each call into a handler. *)
(***************************************************************************)
EXTENDS Integers, Sequences, FiniteSets, TLC

\* ---------------------------------------------------------------- bounds
NumThreads == 2
NumHandlers == 2

Threads == 1..NumThreads
Handlers == 1..NumHandlers

\* Handler 1 is a ConsoleLogHandler, every other handler a FileLogHandler.
ConsoleHandler == 1
IsFileHandler(h) == h # ConsoleHandler

\* Logger instances: the default instance and one slot per thread.
DefaultLogger == 0
Loggers == {DefaultLogger} \cup Threads

\* Logger names: "default" and "thread_<thread name>"; NoName is the None
\* argument of get_thread_logger, NoLogger an absent registry entry.
DefaultName == 0
ThreadName(t) == t
Names == {DefaultName} \cup {ThreadName(t) : t \in Threads}
NoName == -1
NoLogger == -1
NoHandler == 0
NoThread == 0

\* ---------------------------------------------------------------- Status
\* A Status is its code and, for a handler's failure, the handler it came from.
Status(code, src) == [code |-> code, src |-> src]
OkStatus == Status("OK", NoHandler)
NotFoundStatus == Status("NOT_FOUND", NoHandler)
HandlerError(h) == Status("ERROR", h)
Ok(s) == s.code = "OK"

\* A finished call of handle() or close() on handler h, which returned st.
Called(h, st) == [handler |-> h, status |-> st]

\* ---------------------------------------------------------------- mutexes
\* ThreadingMutex wraps a threading.RLock: an owner and a hold count.
FreeMutex == [owner |-> NoThread, count |-> 0]
CanAcquire(m, t) == m.owner = NoThread \/ m.owner = t
MutexAcquire(m, t) == [owner |-> t, count |-> m.count + 1]
MutexRelease(m, t) ==
  IF m.owner # t THEN m
  ELSE IF m.count = 1 THEN FreeMutex
  ELSE [owner |-> t, count |-> m.count - 1]
Holds(m, t) == m.owner = t /\ m.count > 0
\* Thread t's hold count on mutex m.
HoldCount(m, t) == IF m.owner = t THEN m.count ELSE 0

VARIABLES
  pc,              \* pc[t]: the step thread t is at
  op,              \* op[t]: the method thread t is running
  tgt,             \* tgt[t]: the Logger instance t's running method is called on
  arg,             \* arg[t]: the handler (add/remove) or name (get_thread_logger) argument
  cur,             \* cur[t]: the handler t's loop is at
  idx,             \* idx[t]: number of handlers t's loop is done with
  snap,            \* snap[t]: log()'s local copy `handlers`
  calls,           \* calls[t]: the handle()/close() calls t's running method has made, with their Status
  atCopy,          \* atCopy[t]: Logger._handlers as it was when log() copied it
  result,          \* result[t]: the Status (or instance) the running method returns
  handlers,        \* handlers[l]: Logger._handlers of instance l
  hmutex,          \* hmutex[l]: Logger._handlers_lock of instance l
  instMutex,       \* Logger._instance_mutex
  regMutex,        \* Logger._registry_mutex
  hlock,           \* hlock[h]: the thread inside handler h's `with self._lock`
  closed,          \* closed[h]: handler h's file is closed
  defaultInstance, \* Logger._default_instance: 0 (None) or the number of the instance
  ctorCount,       \* number of Logger("default") constructions by get_default
  tls,             \* tls[t]: hasattr(Logger._thread_local, "logger") in thread t
  lname,           \* lname[l]: Logger.name of instance l
  registry         \* Logger._handlers_registry: name -> instance whose list is registered

\* ---------------------------------------------------------------- log.py and mutex state
\* Bounds: the handler objects alive at a time, the close_kern_logging calls
\* counted, and the depth to which a thread re-acquires a ThreadingMutex.
MaxInstances == 3
MaxCycles == 2
MaxHold == 2

\* Handler objects constructed by log.py's init functions.
Instances == 1..MaxInstances

VARIABLES
  initialized,     \* log.py `_initialized`
  kpc,             \* kpc[t]: the step of the log.py function thread t is at
  kfn,             \* kfn[t]: the log.py function thread t is running
  kdir,            \* kdir[t]: its log_dir argument is not ""
  kret,            \* kret[t]: the Status it returns
  attached,        \* attached[l]: Logger._handlers of logger l, a list of handler objects
  kind,            \* kind[i]: the class of handler object i, "none" while there is no such object
  fileOpen,        \* fileOpen[i]: FileLogHandler i's file is open
  initOk,          \* an init_kern_logging call returned OK and no close_kern_logging ran since
  closes,          \* close_kern_logging calls that returned OK, counted up to MaxCycles
  mtx,             \* a ThreadingMutex the threads use directly: owner and hold count
  mpc,             \* mpc[t]: the step of acquire() thread t is at
  margs,           \* margs[t]: the blocking and timeout arguments of its acquire()
  mres,            \* mres[t]: what its last acquire() or release() returned
  debug            \* __debug__: the interpreter runs without -O

logvars == <<initialized, kpc, kfn, kdir, kret, attached, kind, fileOpen,
             initOk, closes>>
mutexvars == <<mtx, mpc, margs, mres, debug>>

\* ---------------------------------------------------------------- Status, StatusOr and check.py state
VARIABLES
  sobj,            \* a Status object: _status_code, _message, _traceback
  sor,             \* a StatusOr object: _type, _val, _status, or the SystemExit of its constructor
  exc,             \* the call that made or last changed the Status object, and its exception's class
  chk              \* the last call of a DCHECK function: its arguments and whether it returned

valuevars == <<sobj, sor, exc, chk>>
\* What the Logger's own steps leave alone.
extra == <<logvars, mutexvars, valuevars>>

locals == <<pc, op, tgt, arg, cur, idx, snap, calls, atCopy, result>>
shared == <<handlers, hmutex, instMutex, regMutex, hlock, closed,
            defaultInstance, ctorCount, tls, lname, registry>>
vars == <<pc, op, tgt, arg, cur, idx, snap, calls, atCopy, result,
          handlers, hmutex, instMutex, regMutex, hlock, closed,
          defaultInstance, ctorCount, tls, lname, registry,
          logvars, mutexvars, valuevars>>

\* The Logger classes after import: no instance, no handler.
LoggerInit ==
  /\ pc = [t \in Threads |-> "idle"]
  /\ op = [t \in Threads |-> "none"]
  /\ tgt = [t \in Threads |-> NoLogger]
  /\ arg = [t \in Threads |-> NoHandler]
  /\ cur = [t \in Threads |-> NoHandler]
  /\ idx = [t \in Threads |-> 0]
  /\ snap = [t \in Threads |-> <<>>]
  /\ calls = [t \in Threads |-> <<>>]
  /\ atCopy = [t \in Threads |-> <<>>]
  /\ result = [t \in Threads |-> OkStatus]
  /\ handlers = [l \in Loggers |-> <<>>]
  /\ hmutex = [l \in Loggers |-> FreeMutex]
  /\ instMutex = FreeMutex
  /\ regMutex = FreeMutex
  /\ hlock = [h \in Handlers |-> NoThread]
  /\ closed = [h \in Handlers |-> FALSE]
  /\ defaultInstance = 0
  /\ ctorCount = 0
  /\ tls = [t \in Threads |-> FALSE]
  /\ lname = [l \in Loggers |-> DefaultName]
  /\ registry = [n \in Names |-> NoLogger]

\* log.py after import.
LogInit ==
  /\ initialized = FALSE
  /\ kpc = [t \in Threads |-> "idle"]
  /\ kfn = [t \in Threads |-> "none"]
  /\ kdir = [t \in Threads |-> FALSE]
  /\ kret = [t \in Threads |-> OkStatus]
  /\ attached = [l \in Loggers |-> <<>>]
  /\ kind = [i \in Instances |-> "none"]
  /\ fileOpen = [i \in Instances |-> FALSE]
  /\ initOk = FALSE
  /\ closes = 0

\* timeout=-1, the default of acquire(): wait without limit.
NoTimeout == -1

\* What acquire() or release() gave its caller: a bool, a Status (by its
\* code), or nothing because SystemExit was raised; "none" before any call.
Result(type, val) == [type |-> type, val |-> val]
NoResult == Result("none", "none")
DefaultArgs == [blocking |-> TRUE, timeout |-> NoTimeout]

\* A ThreadingMutex after construction, no call on it yet.
MutexInit ==
  /\ mtx = FreeMutex
  /\ mpc = [t \in Threads |-> "idle"]
  /\ margs = [t \in Threads |-> DefaultArgs]
  /\ mres = [t \in Threads |-> NoResult]

\* An optional string: None, or a str (which may be empty).
Absent == [present |-> FALSE, text |-> ""]
Text(s) == [present |-> TRUE, text |-> s]

\* Status(a_status_code, a_message): the trace starts as None.
NewStatus(code, msg) ==
  [status_code |-> code, message |-> msg, traceback |-> Absent]

\* Status(): `a_status_code = StatusCode.OK, a_message = None`.
DefaultStatus == NewStatus("OK", Absent)

\* A Python value: its type and, for an int or a bool, its number.
Value(type, n) == [type |-> type, n |-> n]
None == Value("NoneType", 0)

\* No StatusOr constructed yet, and no DCHECK called yet.
NoStatusOr ==
  [state |-> "none", type |-> "object",
   arg |-> [isStatus |-> FALSE, value |-> None, status |-> DefaultStatus],
   val |-> None, status |-> DefaultStatus]
NoCheck ==
  [fn |-> "none", val |-> 0, isNone |-> FALSE, cond |-> 0, exited |-> FALSE]

\* One Status() and nothing else.
ValueInit ==
  /\ sobj = DefaultStatus
  /\ sor = NoStatusOr
  /\ exc = [name |-> "Status()", exc |-> "none"]
  /\ chk = NoCheck

\* The state after import, the interpreter in debug mode (its default).
Init == LoggerInit /\ LogInit /\ MutexInit /\ ValueInit /\ debug = TRUE

\* The state after import, in debug mode or under -O.
ModeInit ==
  LoggerInit /\ LogInit /\ MutexInit /\ ValueInit /\ debug \in BOOLEAN

\* ---------------------------------------------------------------- helpers
Range(s) == {s[i] : i \in 1..Len(s)}
Contains(s, h) == h \in Range(s)
RECURSIVE Remove(_, _)
\* list.remove(h): drops the first occurrence of h.
Remove(s, h) ==
  IF s = <<>> THEN <<>>
  ELSE IF Head(s) = h THEN Tail(s)
  ELSE <<Head(s)>> \o Remove(Tail(s), h)

\* The Logger instance the threads call add_handler, remove_handler,
\* close_all_handlers and log on: the shared default instance, once
\* get_default has created it.
Reachable(t) == {l \in {DefaultLogger} : defaultInstance # 0}

Goto(t, label) == pc' = [pc EXCEPT ![t] = label]

\* Thread t calls method `name` on instance l with argument a.
Enter(t, name, label, l, a) ==
  /\ pc[t] = "idle"
  /\ pc' = [pc EXCEPT ![t] = label]
  /\ op' = [op EXCEPT ![t] = name]
  /\ tgt' = [tgt EXCEPT ![t] = l]
  /\ arg' = [arg EXCEPT ![t] = a]
  /\ UNCHANGED <<cur, idx, snap, calls, atCopy, result>>

\* Mutant: the guarded region is entered without acquiring the mutex.
EnterHandlersLock_NoAcquire(t) == hmutex' = hmutex

\* IMutex.__enter__ on Logger._handlers_lock: acquire(), blocking.
EnterHandlersLock(t) ==
  /\ CanAcquire(hmutex[tgt[t]], t)
  /\ hmutex' = [hmutex EXCEPT ![tgt[t]] = MutexAcquire(@, t)]

\* IMutex.__exit__ on Logger._handlers_lock: release(), its Status dropped.
ExitHandlersLock(t) ==
  hmutex' = [hmutex EXCEPT ![tgt[t]] = MutexRelease(@, t)]

\* ---------------------------------------------------------------- add_handler
\* Mutant: appends without the membership test.
AddHandlerBody_AlwaysAppends(s, h) == Append(s, h)

\* `if handler not in self._handlers: self._handlers.append(handler)`
AddHandlerBody(s, h) == IF Contains(s, h) THEN s ELSE Append(s, h)

AddStart(t) ==
  \E l \in Reachable(t), h \in Handlers :
    /\ Enter(t, "add_handler", "add_acq", l, h)
    /\ UNCHANGED shared
    /\ UNCHANGED extra

\* `with self._handlers_lock:`
AddAcquire(t) ==
  /\ pc[t] = "add_acq"
  /\ EnterHandlersLock(t)
  /\ Goto(t, "add_body")
  /\ UNCHANGED <<op, tgt, arg, cur, idx, snap, calls, atCopy, result>>
  /\ UNCHANGED <<handlers, instMutex, regMutex, hlock, closed,
                 defaultInstance, ctorCount, tls, lname, registry>>
  /\ UNCHANGED extra

\* The guarded region, leaving it, and `return Status()`.
AddBody(t) ==
  /\ pc[t] = "add_body"
  /\ handlers' = [handlers EXCEPT ![tgt[t]] = AddHandlerBody(@, arg[t])]
  /\ ExitHandlersLock(t)
  /\ result' = [result EXCEPT ![t] = OkStatus]
  /\ Goto(t, "done")
  /\ UNCHANGED <<op, tgt, arg, cur, idx, snap, calls, atCopy>>
  /\ UNCHANGED <<instMutex, regMutex, hlock, closed,
                 defaultInstance, ctorCount, tls, lname, registry>>
  /\ UNCHANGED extra

\* ---------------------------------------------------------------- remove_handler
\* `if handler in self._handlers: self._handlers.remove(handler)`
RemoveHandlerBody(s, h) == IF Contains(s, h) THEN Remove(s, h) ELSE s

RemoveStart(t) ==
  \E l \in Reachable(t), h \in Handlers :
    /\ Enter(t, "remove_handler", "rm_acq", l, h)
    /\ UNCHANGED shared
    /\ UNCHANGED extra

\* `with self._handlers_lock:`
RemoveAcquire(t) ==
  /\ pc[t] = "rm_acq"
  /\ EnterHandlersLock(t)
  /\ Goto(t, "rm_body")
  /\ UNCHANGED <<op, tgt, arg, cur, idx, snap, calls, atCopy, result>>
  /\ UNCHANGED <<handlers, instMutex, regMutex, hlock, closed,
                 defaultInstance, ctorCount, tls, lname, registry>>
  /\ UNCHANGED extra

\* The guarded region, leaving it, and `return Status()`.
RemoveBody(t) ==
  /\ pc[t] = "rm_body"
  /\ handlers' = [handlers EXCEPT ![tgt[t]] = RemoveHandlerBody(@, arg[t])]
  /\ ExitHandlersLock(t)
  /\ result' = [result EXCEPT ![t] = OkStatus]
  /\ Goto(t, "done")
  /\ UNCHANGED <<op, tgt, arg, cur, idx, snap, calls, atCopy>>
  /\ UNCHANGED <<instMutex, regMutex, hlock, closed,
                 defaultInstance, ctorCount, tls, lname, registry>>
  /\ UNCHANGED extra

\* ---------------------------------------------------------------- log
\* `handlers = self._handlers.copy()`
CopyHandlers(s) == s

\* `for handler in handlers:` the handler the loop calls after `n` handlers.
NextToHandle(s, n) == s[n + 1]

LogStart(t) ==
  \E l \in Reachable(t) :
    /\ Enter(t, "log", "log_acq", l, NoHandler)
    /\ UNCHANGED shared
    /\ UNCHANGED extra

\* `with self._handlers_lock:`
LogAcquire(t) ==
  /\ pc[t] = "log_acq"
  /\ EnterHandlersLock(t)
  /\ Goto(t, "log_snap")
  /\ UNCHANGED <<op, tgt, arg, cur, idx, snap, calls, atCopy, result>>
  /\ UNCHANGED <<handlers, instMutex, regMutex, hlock, closed,
                 defaultInstance, ctorCount, tls, lname, registry>>
  /\ UNCHANGED extra

\* Mutant: no emptiness test; an empty copy is iterated and OK returned.
LogSnapshot_OkOnEmpty(t) ==
  /\ pc[t] = "log_snap"
  /\ ExitHandlersLock(t)
  /\ snap' = [snap EXCEPT ![t] = CopyHandlers(handlers[tgt[t]])]
  /\ IF handlers[tgt[t]] = <<>>
       THEN /\ result' = [result EXCEPT ![t] = OkStatus]
            /\ Goto(t, "done")
            /\ cur' = cur
       ELSE /\ cur' = [cur EXCEPT ![t] = NextToHandle(snap'[t], 0)]
            /\ Goto(t, "log_hacq")
            /\ result' = result
  /\ atCopy' = [atCopy EXCEPT ![t] = handlers[tgt[t]]]
  /\ UNCHANGED <<op, tgt, arg, idx, calls>>
  /\ UNCHANGED <<handlers, instMutex, regMutex, hlock, closed,
                 defaultInstance, ctorCount, tls, lname, registry>>
  /\ UNCHANGED extra

\* The guarded region and leaving it: `if not self._handlers: return
\* NOT_FOUND`, else the copy, and on to the first handler of the copy.
LogSnapshot(t) ==
  /\ pc[t] = "log_snap"
  /\ ExitHandlersLock(t)
  /\ IF handlers[tgt[t]] = <<>>
       THEN /\ result' = [result EXCEPT ![t] = NotFoundStatus]
            /\ Goto(t, "done")
            /\ UNCHANGED <<snap, cur>>
       ELSE /\ snap' = [snap EXCEPT ![t] = CopyHandlers(handlers[tgt[t]])]
            /\ cur' = [cur EXCEPT ![t] = NextToHandle(snap'[t], 0)]
            /\ Goto(t, "log_hacq")
            /\ result' = result
  /\ atCopy' = [atCopy EXCEPT ![t] = handlers[tgt[t]]]
  /\ UNCHANGED <<op, tgt, arg, idx, calls>>
  /\ UNCHANGED <<handlers, instMutex, regMutex, hlock, closed,
                 defaultInstance, ctorCount, tls, lname, registry>>
  /\ UNCHANGED extra

\* handler.handle(severity, message): entering the handler's `with self._lock:`.
LogHandleEnter(t) ==
  /\ pc[t] = "log_hacq"
  /\ hlock[cur[t]] = NoThread
  /\ hlock' = [hlock EXCEPT ![cur[t]] = t]
  /\ Goto(t, "log_io")
  /\ UNCHANGED <<op, tgt, arg, cur, idx, snap, calls, atCopy, result>>
  /\ UNCHANGED <<handlers, hmutex, instMutex, regMutex, closed,
                 defaultInstance, ctorCount, tls, lname, registry>>
  /\ UNCHANGED extra

\* Mutant: the loop iterates self._handlers itself, not a copy.
LoopList_LiveList(t) == handlers[tgt[t]]

\* `for handler in handlers:` iterates log()'s local copy.
LoopList(t) == snap[t]

\* Mutant: a handler's failure does not end the loop; the Status of the last
\* handler is returned.
AfterHandle_IgnoresFailure(t, st) ==
  /\ idx' = [idx EXCEPT ![t] = @ + 1]
  /\ IF idx[t] + 1 < Len(snap[t])
       THEN /\ cur' = [cur EXCEPT ![t] = NextToHandle(snap[t], idx[t] + 1)]
            /\ Goto(t, "log_hacq")
            /\ result' = result
       ELSE /\ cur' = cur
            /\ Goto(t, "done")
            /\ result' = [result EXCEPT ![t] = st]

\* What log() does with the Status of the handler it just called: return it
\* if it is not OK, go on with the next handler of the copy, or return OK.
AfterHandle(t, st) ==
  IF ~Ok(st)
    THEN /\ result' = [result EXCEPT ![t] = st]
         /\ Goto(t, "done")
         /\ UNCHANGED <<cur, idx>>
    ELSE /\ idx' = [idx EXCEPT ![t] = @ + 1]
         /\ IF idx[t] + 1 < Len(LoopList(t))
              THEN /\ cur' = [cur EXCEPT ![t] = NextToHandle(LoopList(t), idx[t] + 1)]
                   /\ Goto(t, "log_hacq")
                   /\ result' = result
              ELSE /\ cur' = cur
                   /\ Goto(t, "done")
                   /\ result' = [result EXCEPT ![t] = OkStatus]

\* The write and flush inside the handler's lock, and leaving the lock.  The
\* write fails on a closed file, and may fail on a device error otherwise.
LogHandleWrite(t) ==
  /\ pc[t] = "log_io"
  /\ hlock' = [hlock EXCEPT ![cur[t]] = NoThread]
  /\ \E st \in {OkStatus, HandlerError(cur[t])} :
       /\ closed[cur[t]] => ~Ok(st)
       /\ calls' = [calls EXCEPT ![t] = Append(@, Called(cur[t], st))]
       /\ AfterHandle(t, st)
  /\ UNCHANGED <<op, tgt, arg, snap, atCopy>>
  /\ UNCHANGED <<handlers, hmutex, instMutex, regMutex, closed,
                 defaultInstance, ctorCount, tls, lname, registry>>
  /\ UNCHANGED extra

\* ---------------------------------------------------------------- close_all_handlers
CloseAllStart(t) ==
  \E l \in Reachable(t) :
    /\ Enter(t, "close_all_handlers", "ca_acq", l, NoHandler)
    /\ UNCHANGED shared
    /\ UNCHANGED extra

\* `with self._handlers_lock:`
CloseAllAcquire(t) ==
  /\ pc[t] = "ca_acq"
  /\ EnterHandlersLock(t)
  /\ Goto(t, "ca_iter")
  /\ UNCHANGED <<op, tgt, arg, cur, idx, snap, calls, atCopy, result>>
  /\ UNCHANGED <<handlers, instMutex, regMutex, hlock, closed,
                 defaultInstance, ctorCount, tls, lname, registry>>
  /\ UNCHANGED extra

\* `for handler in self._handlers: handler.close()`.  ILogHandler.close (the
\* console handler's) returns OK at once; FileLogHandler.close enters the
\* handler's `with self._lock:`.
CloseAllNext(t) ==
  /\ pc[t] = "ca_iter"
  /\ idx[t] < Len(handlers[tgt[t]])
  /\ LET h == handlers[tgt[t]][idx[t] + 1] IN
       /\ cur' = [cur EXCEPT ![t] = h]
       /\ IF IsFileHandler(h)
            THEN /\ hlock[h] = NoThread
                 /\ hlock' = [hlock EXCEPT ![h] = t]
                 /\ Goto(t, "ca_hclose")
                 /\ UNCHANGED <<idx, calls>>
            ELSE /\ hlock' = hlock
                 /\ calls' = [calls EXCEPT ![t] = Append(@, Called(h, OkStatus))]
                 /\ idx' = [idx EXCEPT ![t] = @ + 1]
                 /\ Goto(t, "ca_iter")
  /\ UNCHANGED <<op, tgt, arg, snap, atCopy, result>>
  /\ UNCHANGED <<handlers, hmutex, instMutex, regMutex, closed,
                 defaultInstance, ctorCount, tls, lname, registry>>
  /\ UNCHANGED extra

\* What close_all_handlers does with the Status of the close() it just
\* called: return it if it is not OK, else go on with the loop.
AfterClose(t, st) ==
  IF ~Ok(st)
    THEN /\ result' = [result EXCEPT ![t] = st]
         /\ Goto(t, "ca_rel")
         /\ idx' = idx
    ELSE /\ idx' = [idx EXCEPT ![t] = @ + 1]
         /\ Goto(t, "ca_iter")
         /\ result' = result

\* `self.file.close()` inside the handler's lock: the file is closed whether
\* or not close() raises; closing a closed file does nothing and succeeds.
CloseAllHandlerClose(t) ==
  /\ pc[t] = "ca_hclose"
  /\ hlock' = [hlock EXCEPT ![cur[t]] = NoThread]
  /\ closed' = [closed EXCEPT ![cur[t]] = TRUE]
  /\ \E st \in {OkStatus, HandlerError(cur[t])} :
       /\ closed[cur[t]] => Ok(st)
       /\ calls' = [calls EXCEPT ![t] = Append(@, Called(cur[t], st))]
       /\ AfterClose(t, st)
  /\ UNCHANGED <<op, tgt, arg, cur, snap, atCopy>>
  /\ UNCHANGED <<handlers, hmutex, instMutex, regMutex,
                 defaultInstance, ctorCount, tls, lname, registry>>
  /\ UNCHANGED extra

\* After the loop: `self._handlers.clear()`, leaving the guarded region,
\* `return Status()`.
CloseAllClear(t) ==
  /\ pc[t] = "ca_iter"
  /\ idx[t] >= Len(handlers[tgt[t]])
  /\ handlers' = [handlers EXCEPT ![tgt[t]] = <<>>]
  /\ ExitHandlersLock(t)
  /\ result' = [result EXCEPT ![t] = OkStatus]
  /\ Goto(t, "done")
  /\ UNCHANGED <<op, tgt, arg, cur, idx, snap, calls, atCopy>>
  /\ UNCHANGED <<instMutex, regMutex, hlock, closed,
                 defaultInstance, ctorCount, tls, lname, registry>>
  /\ UNCHANGED extra

\* Mutant: the early return leaves without releasing the mutex.
CloseAllFail_KeepsMutex(t) ==
  /\ pc[t] = "ca_rel"
  /\ Goto(t, "done")
  /\ UNCHANGED <<op, tgt, arg, cur, idx, snap, calls, atCopy, result>>
  /\ UNCHANGED shared
  /\ UNCHANGED extra

\* `return tmp_status` inside the loop: leaving the guarded region early.
CloseAllFail(t) ==
  /\ pc[t] = "ca_rel"
  /\ ExitHandlersLock(t)
  /\ Goto(t, "done")
  /\ UNCHANGED <<op, tgt, arg, cur, idx, snap, calls, atCopy, result>>
  /\ UNCHANGED <<handlers, instMutex, regMutex, hlock, closed,
                 defaultInstance, ctorCount, tls, lname, registry>>
  /\ UNCHANGED extra

\* ---------------------------------------------------------------- Logger.__init__
\* `Logger._handlers_registry[name] = self._handlers`
Register(reg, name, l) == [reg EXCEPT ![name] = l]

\* Logger(name): a new instance in slot l with an empty list and a new mutex.
Construct(l, name) ==
  /\ handlers' = [handlers EXCEPT ![l] = <<>>]
  /\ hmutex' = [hmutex EXCEPT ![l] = FreeMutex]
  /\ lname' = [lname EXCEPT ![l] = name]

\* An instance is returned as a value tagged INSTANCE.
Instance(i) == Status("INSTANCE", i)

\* ---------------------------------------------------------------- get_default
GetDefaultStart(t) ==
  /\ Enter(t, "get_default", "gd_acq", NoLogger, NoHandler)
  /\ UNCHANGED shared
  /\ UNCHANGED extra

\* Mutant: the instance mutex is not taken before the test for None.
GetDefaultAcquire_NoLock(t) ==
  /\ pc[t] = "gd_acq"
  /\ Goto(t, "gd_check")
  /\ UNCHANGED <<op, tgt, arg, cur, idx, snap, calls, atCopy, result>>
  /\ UNCHANGED shared
  /\ UNCHANGED extra

\* `with cls._instance_mutex:`
GetDefaultAcquire(t) ==
  /\ pc[t] = "gd_acq"
  /\ CanAcquire(instMutex, t)
  /\ instMutex' = MutexAcquire(instMutex, t)
  /\ Goto(t, "gd_check")
  /\ UNCHANGED <<op, tgt, arg, cur, idx, snap, calls, atCopy, result>>
  /\ UNCHANGED <<handlers, hmutex, regMutex, hlock, closed,
                 defaultInstance, ctorCount, tls, lname, registry>>
  /\ UNCHANGED extra

\* `if cls._default_instance is None:`: the start of cls("default"), or
\* `return cls._default_instance`, leaving the instance mutex.
GetDefaultCheck(t) ==
  /\ pc[t] = "gd_check"
  /\ IF defaultInstance = 0
       THEN /\ Construct(DefaultLogger, DefaultName)
            /\ ctorCount' = ctorCount + 1
            /\ Goto(t, "gd_racq")
            /\ UNCHANGED <<instMutex, result>>
       ELSE /\ UNCHANGED <<handlers, hmutex, lname, ctorCount>>
            /\ result' = [result EXCEPT ![t] = Instance(defaultInstance)]
            /\ instMutex' = MutexRelease(instMutex, t)
            /\ Goto(t, "done")
  /\ UNCHANGED <<op, tgt, arg, cur, idx, snap, calls, atCopy>>
  /\ UNCHANGED <<regMutex, hlock, closed, defaultInstance, tls, registry>>
  /\ UNCHANGED extra

\* __init__: `with Logger._registry_mutex:`
GetDefaultRegAcquire(t) ==
  /\ pc[t] = "gd_racq"
  /\ CanAcquire(regMutex, t)
  /\ regMutex' = MutexAcquire(regMutex, t)
  /\ Goto(t, "gd_reg")
  /\ UNCHANGED <<op, tgt, arg, cur, idx, snap, calls, atCopy, result>>
  /\ UNCHANGED <<handlers, hmutex, instMutex, hlock, closed,
                 defaultInstance, ctorCount, tls, lname, registry>>
  /\ UNCHANGED extra

\* __init__ registers the list and leaves the registry mutex.
GetDefaultRegister(t) ==
  /\ pc[t] = "gd_reg"
  /\ registry' = Register(registry, DefaultName, DefaultLogger)
  /\ regMutex' = MutexRelease(regMutex, t)
  /\ Goto(t, "gd_set")
  /\ UNCHANGED <<op, tgt, arg, cur, idx, snap, calls, atCopy, result>>
  /\ UNCHANGED <<handlers, hmutex, instMutex, hlock, closed,
                 defaultInstance, ctorCount, tls, lname>>
  /\ UNCHANGED extra

\* `cls._default_instance = cls("default")`, `return cls._default_instance`,
\* leaving the instance mutex.  The instance is the ctorCount-th constructed.
GetDefaultAssign(t) ==
  /\ pc[t] = "gd_set"
  /\ defaultInstance' = ctorCount
  /\ result' = [result EXCEPT ![t] = Instance(defaultInstance')]
  /\ instMutex' = MutexRelease(instMutex, t)
  /\ Goto(t, "done")
  /\ UNCHANGED <<op, tgt, arg, cur, idx, snap, calls, atCopy>>
  /\ UNCHANGED <<handlers, hmutex, regMutex, hlock, closed,
                 ctorCount, tls, lname, registry>>
  /\ UNCHANGED extra

\* ---------------------------------------------------------------- get_thread_logger
\* `thread_name = name or f"thread_{threading.current_thread().name}"`
LoggerNameFor(t, name) == IF name = NoName THEN ThreadName(t) ELSE name

\* The names callers pass to get_thread_logger.
NameArgs == {NoName}

\* `if not hasattr(cls._thread_local, "logger"):`, else
\* `return cls._thread_local.logger`.
GetThreadLoggerStart(t) ==
  /\ IF tls[t]
       THEN /\ Enter(t, "get_thread_logger", "done", NoLogger, NoName)
       ELSE \E a \in NameArgs :
              Enter(t, "get_thread_logger", "gt_acq", NoLogger, a)
  /\ UNCHANGED shared
  /\ UNCHANGED extra

\* `with cls._instance_mutex:` and the start of cls(thread_name).
GetThreadLoggerAcquire(t) ==
  /\ pc[t] = "gt_acq"
  /\ CanAcquire(instMutex, t)
  /\ instMutex' = MutexAcquire(instMutex, t)
  /\ Construct(t, LoggerNameFor(t, arg[t]))
  /\ Goto(t, "gt_racq")
  /\ UNCHANGED <<op, tgt, arg, cur, idx, snap, calls, atCopy, result>>
  /\ UNCHANGED <<regMutex, hlock, closed,
                 defaultInstance, ctorCount, tls, registry>>
  /\ UNCHANGED extra

\* __init__: `with Logger._registry_mutex:`
GetThreadLoggerRegAcquire(t) ==
  /\ pc[t] = "gt_racq"
  /\ CanAcquire(regMutex, t)
  /\ regMutex' = MutexAcquire(regMutex, t)
  /\ Goto(t, "gt_reg")
  /\ UNCHANGED <<op, tgt, arg, cur, idx, snap, calls, atCopy, result>>
  /\ UNCHANGED <<handlers, hmutex, instMutex, hlock, closed,
                 defaultInstance, ctorCount, tls, lname, registry>>
  /\ UNCHANGED extra

\* __init__ registers the list and leaves the registry mutex.
GetThreadLoggerRegister(t) ==
  /\ pc[t] = "gt_reg"
  /\ registry' = Register(registry, lname[t], t)
  /\ regMutex' = MutexRelease(regMutex, t)
  /\ Goto(t, "gt_set")
  /\ UNCHANGED <<op, tgt, arg, cur, idx, snap, calls, atCopy, result>>
  /\ UNCHANGED <<handlers, hmutex, instMutex, hlock, closed,
                 defaultInstance, ctorCount, tls, lname>>
  /\ UNCHANGED extra

\* `cls._thread_local.logger = cls(thread_name)`, leaving the instance mutex,
\* `return cls._thread_local.logger`.
GetThreadLoggerAssign(t) ==
  /\ pc[t] = "gt_set"
  /\ tls' = [tls EXCEPT ![t] = TRUE]
  /\ instMutex' = MutexRelease(instMutex, t)
  /\ Goto(t, "done")
  /\ UNCHANGED <<op, tgt, arg, cur, idx, snap, calls, atCopy, result>>
  /\ UNCHANGED <<handlers, hmutex, regMutex, hlock, closed,
                 defaultInstance, ctorCount, lname, registry>>
  /\ UNCHANGED extra

\* ---------------------------------------------------------------- cleanup_thread_logger
\* `if name in cls._handlers_registry: del cls._handlers_registry[name]`
Deregister(reg, name) == [reg EXCEPT ![name] = NoLogger]

\* `if hasattr(cls._thread_local, "logger"):`, else nothing to do.
CleanupStart(t) ==
  /\ Enter(t, "cleanup_thread_logger",
           IF tls[t] THEN "cl_acq" ELSE "done", NoLogger, NoHandler)
  /\ UNCHANGED shared
  /\ UNCHANGED extra

\* `with cls._registry_mutex:`
CleanupAcquire(t) ==
  /\ pc[t] = "cl_acq"
  /\ CanAcquire(regMutex, t)
  /\ regMutex' = MutexAcquire(regMutex, t)
  /\ Goto(t, "cl_del")
  /\ UNCHANGED <<op, tgt, arg, cur, idx, snap, calls, atCopy, result>>
  /\ UNCHANGED <<handlers, hmutex, instMutex, hlock, closed,
                 defaultInstance, ctorCount, tls, lname, registry>>
  /\ UNCHANGED extra

\* The guarded region, leaving it, and `delattr(cls._thread_local,
\* "logger")`, which drops the instance.
CleanupDelete(t) ==
  /\ pc[t] = "cl_del"
  /\ registry' = Deregister(registry, lname[t])
  /\ regMutex' = MutexRelease(regMutex, t)
  /\ tls' = [tls EXCEPT ![t] = FALSE]
  /\ Construct(t, DefaultName)
  /\ Goto(t, "done")
  /\ UNCHANGED <<op, tgt, arg, cur, idx, snap, calls, atCopy, result>>
  /\ UNCHANGED <<instMutex, hlock, closed, defaultInstance, ctorCount>>
  /\ UNCHANGED extra

\* ---------------------------------------------------------------- return
\* The method returns to its caller; its locals are gone.
Return(t) ==
  /\ pc[t] = "done"
  /\ pc' = [pc EXCEPT ![t] = "idle"]
  /\ op' = [op EXCEPT ![t] = "none"]
  /\ tgt' = [tgt EXCEPT ![t] = NoLogger]
  /\ arg' = [arg EXCEPT ![t] = NoHandler]
  /\ cur' = [cur EXCEPT ![t] = NoHandler]
  /\ idx' = [idx EXCEPT ![t] = 0]
  /\ snap' = [snap EXCEPT ![t] = <<>>]
  /\ calls' = [calls EXCEPT ![t] = <<>>]
  /\ atCopy' = [atCopy EXCEPT ![t] = <<>>]
  /\ result' = [result EXCEPT ![t] = OkStatus]
  /\ UNCHANGED shared
  /\ UNCHANGED extra

\* ---------------------------------------------------------------- FileLogHandler.__init__
\* A handler nothing refers to any more is replaced by a newly constructed
\* FileLogHandler, whose file is open.
Referenced(h) ==
  \/ \E l \in Loggers : Contains(handlers[l], h)
  \/ \E t \in Threads : arg[t] = h \/ cur[t] = h \/ Contains(snap[t], h)

NewFileHandler(h) ==
  /\ IsFileHandler(h)
  /\ closed[h]
  /\ ~Referenced(h)
  /\ closed' = [closed EXCEPT ![h] = FALSE]
  /\ UNCHANGED locals
  /\ UNCHANGED <<handlers, hmutex, instMutex, regMutex, hlock,
                 defaultInstance, ctorCount, tls, lname, registry>>
  /\ UNCHANGED extra

\* ---------------------------------------------------------------- specification
\* The steps of a running method of thread t.
Step(t) ==
  \/ AddAcquire(t) \/ AddBody(t)
  \/ RemoveAcquire(t) \/ RemoveBody(t)
  \/ LogAcquire(t) \/ LogSnapshot(t) \/ LogHandleEnter(t) \/ LogHandleWrite(t)
  \/ CloseAllAcquire(t) \/ CloseAllNext(t) \/ CloseAllHandlerClose(t)
  \/ CloseAllClear(t) \/ CloseAllFail(t)
  \/ GetDefaultAcquire(t) \/ GetDefaultCheck(t) \/ GetDefaultRegAcquire(t)
  \/ GetDefaultRegister(t) \/ GetDefaultAssign(t)
  \/ GetThreadLoggerAcquire(t) \/ GetThreadLoggerRegAcquire(t)
  \/ GetThreadLoggerRegister(t) \/ GetThreadLoggerAssign(t)
  \/ CleanupAcquire(t) \/ CleanupDelete(t)
  \/ Return(t)

\* A call of a method by thread t.
Call(t) ==
  \/ AddStart(t) \/ RemoveStart(t) \/ LogStart(t) \/ CloseAllStart(t)
  \/ GetDefaultStart(t) \/ GetThreadLoggerStart(t) \/ CleanupStart(t)

Next ==
  \/ \E t \in Threads : Call(t)
  \/ \E t \in Threads : Step(t)
  \/ \E h \in Handlers : NewFileHandler(h)

Spec == Init /\ [][Next]_vars

\* Every running method gets its next step whenever that step is possible
\* again and again: threads are preempted but not starved, and a thread
\* waiting for a mutex that keeps being released gets it eventually.
FairSpec == Spec /\ \A t \in Threads : SF_vars(Step(t))

\* ================================================================ thread loggers
\* The callers of log.py reach a thread's own Logger through
\* Logger.get_thread_logger(): init_thread_specific_kern_logging adds
\* handlers to it and TLOG logs through it.  ThreadSpec runs these calls, and
\* cleanup_thread_logger, in every thread.

\* Mutant: the logger is kept in a class attribute all threads share.
ThreadLogger_ClassAttribute(t) == 1

\* `cls._thread_local.logger` read in thread t: threading.local keeps one
\* attribute per thread.
ThreadLogger(t) == t

\* The names callers pass to get_thread_logger: none, or one name ("default",
\* the default of Logger.__init__) that several threads may pass.
ThreadNameArgs == {NoName, DefaultName}

\* get_thread_logger(name): `if not hasattr(cls._thread_local, "logger"):`,
\* else `return cls._thread_local.logger`.
GetThreadLoggerStartNamed(t) ==
  /\ IF tls[t]
       THEN /\ Enter(t, "get_thread_logger", "done", NoLogger, NoName)
       ELSE \E a \in ThreadNameArgs :
              Enter(t, "get_thread_logger", "gt_acq", NoLogger, a)
  /\ UNCHANGED shared
  /\ UNCHANGED extra

\* `logger = Logger.get_thread_logger()` returned the thread's logger, then
\* `logger.add_handler(handler)`.
ThreadAddStart(t) ==
  /\ tls[t]
  /\ \E h \in Handlers :
       Enter(t, "add_handler", "add_acq", ThreadLogger(t), h)
  /\ UNCHANGED shared
  /\ UNCHANGED extra

\* TLOG: `Logger.get_thread_logger().log(severity, message)`.
ThreadLogStart(t) ==
  /\ tls[t]
  /\ Enter(t, "log", "log_acq", ThreadLogger(t), NoHandler)
  /\ UNCHANGED shared
  /\ UNCHANGED extra

ThreadCall(t) ==
  \/ GetThreadLoggerStartNamed(t) \/ CleanupStart(t)
  \/ ThreadAddStart(t) \/ ThreadLogStart(t)

ThreadStep(t) ==
  \/ AddAcquire(t) \/ AddBody(t)
  \/ LogAcquire(t) \/ LogSnapshot(t) \/ LogHandleEnter(t) \/ LogHandleWrite(t)
  \/ GetThreadLoggerAcquire(t) \/ GetThreadLoggerRegAcquire(t)
  \/ GetThreadLoggerRegister(t) \/ GetThreadLoggerAssign(t)
  \/ CleanupAcquire(t) \/ CleanupDelete(t)
  \/ Return(t)

ThreadNext ==
  \/ \E t \in Threads : ThreadCall(t)
  \/ \E t \in Threads : ThreadStep(t)

ThreadSpec == Init /\ [][ThreadNext]_vars

\* ================================================================ log.py
\* The functions of log.py, which call the Logger's methods one after the
\* other.  Each Logger method is one step here: its reads and writes of the
\* handler list happen inside the list's mutex.  A thread's steps are the
\* places where another thread's call can come in between.
notLog == <<locals, shared, mutexvars, valuevars>>

\* os.makedirs failed: Status.from_exception(e).
OsError == Status("OS_ERROR", NoHandler)

\* sys.exit(1) in FileLogHandler.__init__: what ends the call is a raised
\* SystemExit, not a returned Status.
SystemExit == Status("SYSTEM_EXIT", NoHandler)

\* A new object takes the lowest number no live object has.
HasFree == \E i \in Instances : kind[i] = "none"
NewInstance ==
  CHOOSE i \in Instances :
    kind[i] = "none" /\ \A j \in Instances : j < i => kind[j] # "none"

Consoles(list) == {i \in 1..Len(list) : kind[list[i]] = "console"}
Files(list) == {i \in 1..Len(list) : kind[list[i]] = "file"}

\* Thread t calls function fn with log_dir given (dir) or "".
KernCall(t, fn, label, dir) ==
  /\ kpc[t] = "idle"
  /\ kpc' = [kpc EXCEPT ![t] = label]
  /\ kfn' = [kfn EXCEPT ![t] = fn]
  /\ kdir' = [kdir EXCEPT ![t] = dir]
  /\ kret' = kret

\* `return st`
KernReturn(t, st) ==
  /\ kpc' = [kpc EXCEPT ![t] = "done"]
  /\ kret' = [kret EXCEPT ![t] = st]
  /\ UNCHANGED <<kfn, kdir>>

KernGoto(t, label) ==
  /\ kpc' = [kpc EXCEPT ![t] = label]
  /\ UNCHANGED <<kfn, kdir, kret>>

\* Some thread is inside close_kern_logging.
ClosingKern == \E t \in Threads : kfn[t] = "close_kern_logging"

\* logger.add_handler(ConsoleLogHandler()) on logger l: a new console
\* handler, which add_handler appends since it is not in the list.
AttachConsole(l) ==
  /\ HasFree
  /\ kind' = [kind EXCEPT ![NewInstance] = "console"]
  /\ attached' = [attached EXCEPT ![l] = AddHandlerBody(@, NewInstance)]
  /\ fileOpen' = fileOpen

\* FileLogHandler(log_path), its file opened, and logger.add_handler of it.
AttachFile(l) ==
  /\ HasFree
  /\ kind' = [kind EXCEPT ![NewInstance] = "file"]
  /\ fileOpen' = [fileOpen EXCEPT ![NewInstance] = TRUE]
  /\ attached' = [attached EXCEPT ![l] = AddHandlerBody(@, NewInstance)]

\* ---------------------------------------------------------------- init_kern_logging
InitKernLoggingCall(t) ==
  /\ \E d \in BOOLEAN : KernCall(t, "init_kern_logging", "ik_check", d)
  /\ UNCHANGED <<initialized, attached, kind, fileOpen, initOk, closes>>
  /\ UNCHANGED notLog

\* `if _initialized: return Status()`
InitKernLoggingCheck(t) ==
  /\ kpc[t] = "ik_check"
  /\ IF initialized
       THEN /\ KernReturn(t, OkStatus)
            /\ initOk' = ~ClosingKern
       ELSE /\ KernGoto(t, "ik_console")
            /\ initOk' = initOk
  /\ UNCHANGED <<initialized, attached, kind, fileOpen, closes>>
  /\ UNCHANGED notLog

\* `logger = Logger.get_default()` and
\* `tmp_status = logger.add_handler(ConsoleLogHandler())`, which is OK.
InitKernLoggingConsole(t) ==
  /\ kpc[t] = "ik_console"
  /\ AttachConsole(DefaultLogger)
  /\ KernGoto(t, IF kdir[t] THEN "ik_file" ELSE "ik_mark")
  /\ UNCHANGED <<initialized, initOk, closes>>
  /\ UNCHANGED notLog

\* Mutant: a failure of the file handler still marks the system initialized.
InitFailed_MarksInitialized(t, st) ==
  /\ KernReturn(t, st)
  /\ initialized' = TRUE
  /\ UNCHANGED <<attached, kind, fileOpen>>

\* `except Exception as e: return Status.from_exception(e)`
InitFailed(t, st) ==
  /\ KernReturn(t, st)
  /\ UNCHANGED <<initialized, attached, kind, fileOpen>>

\* `if log_dir != "":` os.makedirs, which may raise; FileLogHandler(log_path),
\* which leaves through sys.exit(1) when the file cannot be opened; and
\* logger.add_handler(file_handler).
InitKernLoggingFile(t) ==
  /\ kpc[t] = "ik_file"
  /\ \/ InitFailed(t, OsError)
     \/ /\ kpc' = [kpc EXCEPT ![t] = "exited"]
        /\ kret' = [kret EXCEPT ![t] = SystemExit]
        /\ UNCHANGED <<kfn, kdir, initialized, attached, kind, fileOpen>>
     \/ /\ AttachFile(DefaultLogger)
        /\ KernGoto(t, "ik_mark")
        /\ initialized' = initialized
  /\ UNCHANGED <<initOk, closes>>
  /\ UNCHANGED notLog

\* `_initialized = True; return Status()`
InitKernLoggingMark(t) ==
  /\ kpc[t] = "ik_mark"
  /\ initialized' = TRUE
  /\ KernReturn(t, OkStatus)
  /\ initOk' = ~ClosingKern
  /\ UNCHANGED <<attached, kind, fileOpen, closes>>
  /\ UNCHANGED notLog

\* ---------------------------------------------------------------- close_all_handlers, in one step
\* The place in the list of the handler whose close() fails, 0 if none does:
\* only the close() of an open file can fail.
FailingAt(list) ==
  {0} \cup {k \in 1..Len(list) : kind[list[k]] = "file" /\ fileOpen[list[k]]}

\* The handlers close() is called on when the k-th fails (all if none does).
ClosedBy(list, k) ==
  IF k = 0 THEN Range(list) ELSE {list[i] : i \in 1..k}

\* close_all_handlers returns from inside the loop when a close() fails, and
\* then keeps the list.
CloseAllKeeps(k) == k # 0

\* logger.close_all_handlers() on logger l, the k-th close() failing: the
\* handlers up to there are closed; if none fails the list is cleared and
\* its handler objects are gone.
CloseAllHandlers(l, k) ==
  /\ fileOpen' = [i \in Instances |->
                    fileOpen[i] /\ i \notin ClosedBy(attached[l], k)]
  /\ IF CloseAllKeeps(k)
       THEN UNCHANGED <<attached, kind>>
       ELSE /\ attached' = [attached EXCEPT ![l] = <<>>]
            /\ kind' = [i \in Instances |->
                          IF Contains(attached[l], i) THEN "none" ELSE kind[i]]

\* ---------------------------------------------------------------- close_kern_logging
CloseKernLoggingCall(t) ==
  /\ KernCall(t, "close_kern_logging", "ck_close", FALSE)
  /\ initOk' = FALSE
  /\ UNCHANGED <<initialized, attached, kind, fileOpen, closes>>
  /\ UNCHANGED notLog

\* `status = Logger.get_default().close_all_handlers()`,
\* `if not status.ok(): return status`
CloseKernLoggingCloseAll(t) ==
  /\ kpc[t] = "ck_close"
  /\ \E k \in FailingAt(attached[DefaultLogger]) :
       /\ CloseAllHandlers(DefaultLogger, k)
       /\ IF k = 0
            THEN KernGoto(t, "ck_reset")
            ELSE KernReturn(t, HandlerError(attached[DefaultLogger][k]))
  /\ UNCHANGED <<initialized, initOk, closes>>
  /\ UNCHANGED notLog

\* Mutant: close_kern_logging returns without resetting the flag.
CloseKernLoggingReset_KeepsFlag(t) ==
  /\ kpc[t] = "ck_reset"
  /\ initialized' = initialized
  /\ KernReturn(t, OkStatus)
  /\ initOk' = FALSE
  /\ closes' = IF closes < MaxCycles THEN closes + 1 ELSE closes
  /\ UNCHANGED <<attached, kind, fileOpen>>
  /\ UNCHANGED notLog

\* `_initialized = False; return Status()`
CloseKernLoggingReset(t) ==
  /\ kpc[t] = "ck_reset"
  /\ initialized' = FALSE
  /\ KernReturn(t, OkStatus)
  /\ initOk' = FALSE
  /\ closes' = IF closes < MaxCycles THEN closes + 1 ELSE closes
  /\ UNCHANGED <<attached, kind, fileOpen>>
  /\ UNCHANGED notLog

\* ---------------------------------------------------------------- init_thread_specific_kern_logging
InitThreadSpecificCall(t) ==
  /\ \E d \in BOOLEAN :
       KernCall(t, "init_thread_specific_kern_logging", "it_console", d)
  /\ UNCHANGED <<initialized, attached, kind, fileOpen, initOk, closes>>
  /\ UNCHANGED notLog

\* `logger = Logger.get_thread_logger()` and
\* `tmp_status = logger.add_handler(ConsoleLogHandler())`; without a log_dir
\* `return Status()`.
InitThreadSpecificConsole(t) ==
  /\ kpc[t] = "it_console"
  /\ AttachConsole(ThreadLogger(t))
  /\ IF kdir[t] THEN KernGoto(t, "it_file") ELSE KernReturn(t, OkStatus)
  /\ UNCHANGED <<initialized, initOk, closes>>
  /\ UNCHANGED notLog

\* As in init_kern_logging, then `return Status()`.
InitThreadSpecificFile(t) ==
  /\ kpc[t] = "it_file"
  /\ \/ InitFailed(t, OsError)
     \/ /\ kpc' = [kpc EXCEPT ![t] = "exited"]
        /\ kret' = [kret EXCEPT ![t] = SystemExit]
        /\ UNCHANGED <<kfn, kdir, initialized, attached, kind, fileOpen>>
     \/ /\ AttachFile(ThreadLogger(t))
        /\ KernReturn(t, OkStatus)
        /\ initialized' = initialized
  /\ UNCHANGED <<initOk, closes>>
  /\ UNCHANGED notLog

\* ---------------------------------------------------------------- close_thread_specific_kern_logging
CloseThreadSpecificCall(t) ==
  /\ KernCall(t, "close_thread_specific_kern_logging", "ct_close", FALSE)
  /\ UNCHANGED <<initialized, attached, kind, fileOpen, initOk, closes>>
  /\ UNCHANGED notLog

\* `status = Logger.get_thread_logger().close_all_handlers()`,
\* `if not status.ok(): return status`
CloseThreadSpecificCloseAll(t) ==
  /\ kpc[t] = "ct_close"
  /\ \E k \in FailingAt(attached[ThreadLogger(t)]) :
       /\ CloseAllHandlers(ThreadLogger(t), k)
       /\ IF k = 0
            THEN KernGoto(t, "ct_reset")
            ELSE KernReturn(t, HandlerError(attached[ThreadLogger(t)][k]))
  /\ UNCHANGED <<initialized, initOk, closes>>
  /\ UNCHANGED notLog

\* `_initialized = False; return Status()`: the flag of the default logger.
CloseThreadSpecificReset(t) ==
  /\ kpc[t] = "ct_reset"
  /\ initialized' = FALSE
  /\ KernReturn(t, OkStatus)
  /\ UNCHANGED <<attached, kind, fileOpen, initOk, closes>>
  /\ UNCHANGED notLog

\* ---------------------------------------------------------------- LOG, TLOG
\* Logger.log on a list, in one step: NOT_FOUND on an empty list, else the
\* Status of the first handler that fails, which a closed file does.
LogThrough(list) ==
  LET bad == {i \in 1..Len(list) :
                kind[list[i]] = "file" /\ ~fileOpen[list[i]]} IN
    IF list = <<>> THEN NotFoundStatus
    ELSE IF bad = {} THEN OkStatus
    ELSE HandlerError(list[CHOOSE i \in bad : \A j \in bad : i <= j])

\* LOG: `return Logger.get_default().log(severity, message)`
Log(t) ==
  /\ kpc[t] = "idle"
  /\ kfn' = [kfn EXCEPT ![t] = "LOG"]
  /\ kpc' = [kpc EXCEPT ![t] = "done"]
  /\ kret' = [kret EXCEPT ![t] = LogThrough(attached[DefaultLogger])]
  /\ UNCHANGED <<kdir, initialized, attached, kind, fileOpen, initOk, closes>>
  /\ UNCHANGED notLog

\* TLOG: `return Logger.get_thread_logger().log(severity, message)`
Tlog(t) ==
  /\ kpc[t] = "idle"
  /\ kfn' = [kfn EXCEPT ![t] = "TLOG"]
  /\ kpc' = [kpc EXCEPT ![t] = "done"]
  /\ kret' = [kret EXCEPT ![t] = LogThrough(attached[ThreadLogger(t)])]
  /\ UNCHANGED <<kdir, initialized, attached, kind, fileOpen, initOk, closes>>
  /\ UNCHANGED notLog

\* The function has returned to its caller.
KernReturned(t) ==
  /\ kpc[t] = "done"
  /\ kpc' = [kpc EXCEPT ![t] = "idle"]
  /\ kfn' = [kfn EXCEPT ![t] = "none"]
  /\ kdir' = [kdir EXCEPT ![t] = FALSE]
  /\ kret' = [kret EXCEPT ![t] = OkStatus]
  /\ UNCHANGED <<initialized, attached, kind, fileOpen, initOk, closes>>
  /\ UNCHANGED notLog

LogPyCall(t) ==
  \/ InitKernLoggingCall(t) \/ CloseKernLoggingCall(t)
  \/ InitThreadSpecificCall(t) \/ CloseThreadSpecificCall(t)
  \/ Log(t) \/ Tlog(t)

LogPyStep(t) ==
  \/ InitKernLoggingCheck(t) \/ InitKernLoggingConsole(t)
  \/ InitKernLoggingFile(t) \/ InitKernLoggingMark(t)
  \/ CloseKernLoggingCloseAll(t) \/ CloseKernLoggingReset(t)
  \/ InitThreadSpecificConsole(t) \/ InitThreadSpecificFile(t)
  \/ CloseThreadSpecificCloseAll(t) \/ CloseThreadSpecificReset(t)
  \/ KernReturned(t)

LogPyNext ==
  \/ \E t \in Threads : LogPyCall(t)
  \/ \E t \in Threads : LogPyStep(t)

LogPySpec == Init /\ [][LogPyNext]_vars

\* ================================================================ faults
\* A fault raised while a Logger method runs.  ILogHandler is an abstract
\* class: a handler may be an object of a user's subclass whose handle(),
\* close() or __eq__ raises, and a list operation can raise MemoryError.
\* FaultSpec runs the four list methods of the default logger with such
\* faults at every place where one can be raised.

\* Status.from_exception(e) for a fault that came from handler h (NoHandler
\* for a fault of the list operation itself): never OK.
FromException(h) == Status("RUNTIME_ERROR", h)

\* Mutant: an exception leaves the `with` block without __exit__ running.
ExitOnFault_NoRelease(t) == hmutex' = hmutex

\* IMutex.__exit__ when the `with self._handlers_lock:` block is left by an
\* exception: release(), and the exception goes on to the handler clause.
ExitOnFault(t) == ExitHandlersLock(t)

\* Mutant: no except clause; the exception leaves the method.
CatchException_Propagates(t, h) ==
  /\ result' = result
  /\ Goto(t, "raised")

\* `except Exception as e: return Status.from_exception(e)`
CatchException(t, h) ==
  /\ result' = [result EXCEPT ![t] = FromException(h)]
  /\ Goto(t, "done")

\* add_handler: `handler not in self._handlers` or append() raises.
AddBodyRaises(t) ==
  /\ pc[t] = "add_body"
  /\ ExitOnFault(t)
  /\ CatchException(t, arg[t])
  /\ UNCHANGED <<op, tgt, arg, cur, idx, snap, calls, atCopy>>
  /\ UNCHANGED <<handlers, instMutex, regMutex, hlock, closed,
                 defaultInstance, ctorCount, tls, lname, registry>>
  /\ UNCHANGED extra

\* remove_handler: `handler in self._handlers` or remove() raises.
RemoveBodyRaises(t) ==
  /\ pc[t] = "rm_body"
  /\ ExitOnFault(t)
  /\ CatchException(t, arg[t])
  /\ UNCHANGED <<op, tgt, arg, cur, idx, snap, calls, atCopy>>
  /\ UNCHANGED <<handlers, instMutex, regMutex, hlock, closed,
                 defaultInstance, ctorCount, tls, lname, registry>>
  /\ UNCHANGED extra

\* log: `self._handlers.copy()` raises.
LogSnapshotRaises(t) ==
  /\ pc[t] = "log_snap"
  /\ handlers[tgt[t]] # <<>>
  /\ ExitOnFault(t)
  /\ CatchException(t, NoHandler)
  /\ UNCHANGED <<op, tgt, arg, cur, idx, snap, calls, atCopy>>
  /\ UNCHANGED <<handlers, instMutex, regMutex, hlock, closed,
                 defaultInstance, ctorCount, tls, lname, registry>>
  /\ UNCHANGED extra

\* log: handler.handle() raises instead of returning a Status; the loop is
\* left and no further handler of the copy is called.
LogHandleRaises(t) ==
  /\ pc[t] = "log_hacq"
  /\ CatchException(t, cur[t])
  /\ UNCHANGED <<op, tgt, arg, cur, idx, snap, calls, atCopy>>
  /\ UNCHANGED shared
  /\ UNCHANGED extra

\* close_all_handlers: handler.close() raises inside the guarded region.
CloseAllHandlerRaises(t) ==
  /\ pc[t] = "ca_iter"
  /\ idx[t] < Len(handlers[tgt[t]])
  /\ cur' = [cur EXCEPT ![t] = handlers[tgt[t]][idx[t] + 1]]
  /\ ExitOnFault(t)
  /\ CatchException(t, handlers[tgt[t]][idx[t] + 1])
  /\ UNCHANGED <<op, tgt, arg, idx, snap, calls, atCopy>>
  /\ UNCHANGED <<handlers, instMutex, regMutex, hlock, closed,
                 defaultInstance, ctorCount, tls, lname, registry>>
  /\ UNCHANGED extra

FaultCall(t) ==
  \/ AddStart(t) \/ RemoveStart(t) \/ LogStart(t) \/ CloseAllStart(t)
  \/ GetDefaultStart(t)

FaultStep(t) ==
  \/ AddAcquire(t) \/ AddBody(t) \/ AddBodyRaises(t)
  \/ RemoveAcquire(t) \/ RemoveBody(t) \/ RemoveBodyRaises(t)
  \/ LogAcquire(t) \/ LogSnapshot(t) \/ LogSnapshotRaises(t)
  \/ LogHandleEnter(t) \/ LogHandleWrite(t) \/ LogHandleRaises(t)
  \/ CloseAllAcquire(t) \/ CloseAllNext(t) \/ CloseAllHandlerClose(t)
  \/ CloseAllHandlerRaises(t) \/ CloseAllClear(t) \/ CloseAllFail(t)
  \/ GetDefaultAcquire(t) \/ GetDefaultCheck(t) \/ GetDefaultRegAcquire(t)
  \/ GetDefaultRegister(t) \/ GetDefaultAssign(t)
  \/ Return(t)

FaultNext ==
  \/ \E t \in Threads : FaultCall(t)
  \/ \E t \in Threads : FaultStep(t)

FaultSpec == Init /\ [][FaultNext]_vars

\* ================================================================ ThreadingMutex
\* The threads call acquire() and release() of one ThreadingMutex directly,
\* with every combination of arguments, in debug mode and under -O.
notMutex == <<locals, shared, logvars, valuevars>>

\* A positive timeout, in seconds.
SomeTimeout == 1
Timeouts == {NoTimeout, SomeTimeout}

True == Result("bool", "True")
False == Result("bool", "False")
MutexOk == Result("status", "OK")
FailedPrecondition == Result("status", "FAILED_PRECONDITION")
ValueError == Result("status", "VALUE_ERROR")
Exited == Result("exit", "SystemExit")

\* DCHECK_GREATER_THAN(val, cond_val) ends the process: in debug mode, when
\* `val > cond_val`.
DcheckGreaterThanExits(val, condVal) == debug /\ val > condVal

\* threading.RLock.acquire raises ValueError for a timeout given together
\* with blocking=False.
AcquireArgsInvalid(a) == ~a.blocking /\ a.timeout # NoTimeout

\* RLock.acquire waits without limit only when blocking with timeout=-1.
WaitsForever(a) == a.blocking /\ a.timeout = NoTimeout

\* mutex.acquire(blocking, timeout) is called.
AcquireCall(t) ==
  /\ mpc[t] = "idle"
  /\ HoldCount(mtx, t) < MaxHold
  /\ \E b \in BOOLEAN, to \in Timeouts :
       margs' = [margs EXCEPT ![t] = [blocking |-> b, timeout |-> to]]
  /\ mpc' = [mpc EXCEPT ![t] = "acq_check"]
  /\ mres' = [mres EXCEPT ![t] = NoResult]
  /\ UNCHANGED <<mtx, debug>>
  /\ UNCHANGED notMutex

\* The checks at the head of acquire(), and the argument check of
\* RLock.acquire, whose ValueError becomes a Status.
AcquireCheck(t) ==
  /\ mpc[t] = "acq_check"
  /\ IF DcheckGreaterThanExits(margs[t].timeout, 0)
       THEN /\ mpc' = [mpc EXCEPT ![t] = "exited"]
            /\ mres' = [mres EXCEPT ![t] = Exited]
       ELSE IF AcquireArgsInvalid(margs[t])
         THEN /\ mpc' = [mpc EXCEPT ![t] = "done"]
              /\ mres' = [mres EXCEPT ![t] = ValueError]
         ELSE /\ mpc' = [mpc EXCEPT ![t] = "acq_wait"]
              /\ mres' = mres
  /\ UNCHANGED <<mtx, margs, debug>>
  /\ UNCHANGED notMutex

\* RLock.acquire gets the lock: free, or held by the caller already.
AcquireGrant(t) ==
  /\ mpc[t] = "acq_wait"
  /\ CanAcquire(mtx, t)
  /\ mtx' = MutexAcquire(mtx, t)
  /\ mpc' = [mpc EXCEPT ![t] = "done"]
  /\ mres' = [mres EXCEPT ![t] = True]
  /\ UNCHANGED <<margs, debug>>
  /\ UNCHANGED notMutex

\* RLock.acquire gives up: the lock is held by another thread and the call
\* is non-blocking or its timeout has run out.
AcquireGiveUp(t) ==
  /\ mpc[t] = "acq_wait"
  /\ ~CanAcquire(mtx, t)
  /\ ~WaitsForever(margs[t])
  /\ mpc' = [mpc EXCEPT ![t] = "done"]
  /\ mres' = [mres EXCEPT ![t] = False]
  /\ UNCHANGED <<mtx, margs, debug>>
  /\ UNCHANGED notMutex

\* Mutant: release() returns OK whoever holds the mutex.
ReleaseStatus_AlwaysOk(m, t) == MutexOk

\* release(): RLock.release raises RuntimeError unless the caller owns the
\* lock, which release() turns into FAILED_PRECONDITION.
ReleaseStatus(m, t) == IF Holds(m, t) THEN MutexOk ELSE FailedPrecondition

\* mutex.release() is called.
Release(t) ==
  /\ mpc[t] = "idle"
  /\ mtx' = MutexRelease(mtx, t)
  /\ mres' = [mres EXCEPT ![t] = ReleaseStatus(mtx, t)]
  /\ mpc' = [mpc EXCEPT ![t] = "done"]
  /\ UNCHANGED <<margs, debug>>
  /\ UNCHANGED notMutex

\* The call returns to its caller.
MutexReturn(t) ==
  /\ mpc[t] = "done"
  /\ mpc' = [mpc EXCEPT ![t] = "idle"]
  /\ margs' = [margs EXCEPT ![t] = DefaultArgs]
  /\ mres' = [mres EXCEPT ![t] = NoResult]
  /\ UNCHANGED <<mtx, debug>>
  /\ UNCHANGED notMutex

MutexNext ==
  \E t \in Threads :
    \/ AcquireCall(t) \/ AcquireCheck(t) \/ AcquireGrant(t)
    \/ AcquireGiveUp(t) \/ Release(t) \/ MutexReturn(t)

MutexSpec == ModeInit /\ [][MutexNext]_vars

\* ================================================================ Status and StatusOr
\* StatusSpec constructs Status and StatusOr objects with every argument of
\* small sets, makes Status objects from exceptions and sets traces.

\* Python classes and their base class.  The built-in exception classes are
\* a part of EXCEPTION_TO_STATUS_CODE's keys; the My* classes and
\* CustomException are classes of the caller.
Parent ==
  [c \in {"object"} |-> "object"]
  @@ [c \in {"NoneType", "int", "str", "BaseException"} |-> "object"]
  @@ [c \in {"bool"} |-> "int"]
  @@ [c \in {"Exception"} |-> "BaseException"]
  @@ [c \in {"ArithmeticError", "ImportError", "LookupError", "OSError",
             "ValueError", "CustomException"} |-> "Exception"]
  @@ [c \in {"ZeroDivisionError"} |-> "ArithmeticError"]
  @@ [c \in {"ModuleNotFoundError"} |-> "ImportError"]
  @@ [c \in {"KeyError"} |-> "LookupError"]
  @@ [c \in {"FileNotFoundError"} |-> "OSError"]
  @@ [c \in {"MyZeroDivisionError"} |-> "ZeroDivisionError"]
  @@ [c \in {"MyModuleNotFoundError"} |-> "ModuleNotFoundError"]
  @@ [c \in {"MyKeyError"} |-> "KeyError"]
  @@ [c \in {"MyFileNotFoundError"} |-> "FileNotFoundError"]

Classes == DOMAIN Parent

RECURSIVE Mro(_)
\* The class and its base classes, up to object.
Mro(c) == IF c = "object" THEN {c} ELSE {c} \cup Mro(Parent[c])

\* isinstance(x, cls) for an x of class c.
IsInstance(c, cls) == cls \in Mro(c)

\* The classes of the exceptions given to from_exception.
ExceptionTypes ==
  {c \in Classes : IsInstance(c, "Exception")}

\* EXCEPTION_TO_STATUS_CODE in the order of its declaration.
ExceptionToStatusCode ==
  << <<"ArithmeticError", "ARITHMETIC_ERROR">>,
     <<"FileNotFoundError", "FILE_NOT_FOUND_ERROR">>,
     <<"ImportError", "IMPORT_ERROR">>,
     <<"KeyError", "KEY_ERROR">>,
     <<"LookupError", "LOOKUP_ERROR">>,
     <<"ModuleNotFoundError", "MODULE_NOT_FOUND_ERROR">>,
     <<"OSError", "OS_ERROR">>,
     <<"ValueError", "VALUE_ERROR">>,
     <<"ZeroDivisionError", "ZERO_DIVISION_ERROR">> >>

\* Mutant: the scan prefers the nearest mapped base class to the first
\* entry in declaration order.
GetStatusCodeForException_Nearest(c) ==
  LET T == ExceptionToStatusCode
      Hits == {i \in 1..Len(T) : IsInstance(c, T[i][1])}
  IN IF Hits = {} THEN "UNKNOWN"
     ELSE T[CHOOSE i \in Hits :
              \A j \in Hits : IsInstance(T[i][1], T[j][1])][2]

\* get_status_code_for_exception for an exception of class c: the dict
\* lookup by type(exception), then the loop over items() in insertion
\* order with isinstance, then UNKNOWN.
GetStatusCodeForException(c) ==
  LET T == ExceptionToStatusCode
      Exact == {i \in 1..Len(T) : T[i][1] = c}
      Hits == {i \in 1..Len(T) : IsInstance(c, T[i][1])}
  IN IF Exact # {} THEN T[CHOOSE i \in Exact : TRUE][2]
     ELSE IF Hits # {}
       THEN T[CHOOSE i \in Hits : \A j \in Hits : i <= j][2]
       ELSE "UNKNOWN"

\* Mutant: a Status with no message counts as OK.
StatusOk_NoMessage(s) == ~s.message.present

\* Status.ok(): `self._status_code == StatusCode.OK`.
StatusOk(s) == s.status_code = "OK"

\* Status.__str__: "OK", or the code's name, followed by ": " and the
\* message when the message is neither None nor empty.
StatusStr(s) ==
  IF StatusOk(s) THEN "OK"
  ELSE IF s.message.present /\ s.message.text # ""
    THEN s.status_code \o ": " \o s.message.text
    ELSE s.status_code

\* Status.set_traceback: `self._traceback = a_traceback`.
SetTraceback(s, tb) == [s EXCEPT !.traceback = Text(tb)]

\* Status.from_exception for an exception of class c whose str() is m.
StatusFromException(c, m, includeTraceback) ==
  LET tmp == NewStatus(GetStatusCodeForException(c), Text(m))
  IN IF includeTraceback THEN SetTraceback(tmp, "Traceback") ELSE tmp

\* The arguments the objects are constructed with.
CodeArgs == {"OK", "INVALID_ARGUMENT", "NOT_FOUND"}
MessageArgs == {Absent, Text(""), Text("m")}
TraceArgs == {"Traceback", "trace"}
TypeTags == {"int", "str"}
Values == {None, Value("int", 42), Value("bool", 1), Value("str", 0)}

\* The call that made or last changed the Status object.
Made(name, c) == [name |-> name, exc |-> c]

notValue == <<locals, shared, logvars, mutexvars>>

\* Status()
StatusDefault ==
  /\ sobj' = DefaultStatus
  /\ exc' = Made("Status()", "none")
  /\ UNCHANGED <<sor, chk>>
  /\ UNCHANGED notValue

\* Status(code, message) and Status.from_status_code(code, message)
StatusNew ==
  /\ \E code \in CodeArgs, msg \in MessageArgs :
       sobj' = NewStatus(code, msg)
  /\ exc' = Made("Status", "none")
  /\ UNCHANGED <<sor, chk>>
  /\ UNCHANGED notValue

\* Status.from_exception(e, include_traceback)
StatusOfException ==
  /\ \E c \in ExceptionTypes, m \in {"", "m"}, tb \in BOOLEAN :
       /\ sobj' = StatusFromException(c, m, tb)
       /\ exc' = Made("from_exception", c)
  /\ UNCHANGED <<sor, chk>>
  /\ UNCHANGED notValue

\* status.set_traceback(tb)
StatusSetTraceback ==
  /\ \E tb \in TraceArgs : sobj' = SetTraceback(sobj, tb)
  /\ exc' = Made("set_traceback", exc.exc)
  /\ UNCHANGED <<sor, chk>>
  /\ UNCHANGED notValue

\* The second argument of StatusOr(): a Status or another value.
StatusArg(s) == [isStatus |-> TRUE, value |-> None, status |-> s]
ValueArg(v) == [isStatus |-> FALSE, value |-> v, status |-> DefaultStatus]

\* `a_val_or_status is not None and not isinstance(a_val_or_status, a_type)`
TypeMismatch(tag, v) == v # None /\ ~IsInstance(v.type, tag)

\* Mutant: a value of the wrong type gives a StatusOr holding an error.
StatusOrInit_ReportsMismatch(tag, a) ==
  IF a.isStatus
    THEN [state |-> "object", type |-> tag, arg |-> a,
          val |-> None, status |-> a.status]
    ELSE IF TypeMismatch(tag, a.value)
      THEN [state |-> "object", type |-> tag, arg |-> a,
            val |-> None, status |-> NewStatus("INVALID_ARGUMENT", Absent)]
      ELSE [state |-> "object", type |-> tag, arg |-> a,
            val |-> a.value, status |-> DefaultStatus]

\* StatusOr.__init__(a_type, a_val_or_status): what the constructor leaves,
\* an object or, after sys.exit(1), none.
StatusOrInit(tag, a) ==
  IF a.isStatus
    THEN [state |-> "object", type |-> tag, arg |-> a,
          val |-> None, status |-> a.status]
    ELSE IF TypeMismatch(tag, a.value)
      THEN [state |-> "exited", type |-> tag, arg |-> a,
            val |-> None, status |-> DefaultStatus]
      ELSE [state |-> "object", type |-> tag, arg |-> a,
            val |-> a.value, status |-> DefaultStatus]

\* StatusOr.ok(): `self._status.status_code() is StatusCode.OK`.
StatusOrOk(o) == o.status.status_code = "OK"

\* StatusOr(tag, value)
StatusOrOfValue ==
  /\ \E tag \in TypeTags, v \in Values : sor' = StatusOrInit(tag, ValueArg(v))
  /\ UNCHANGED <<sobj, exc, chk>>
  /\ UNCHANGED notValue

\* StatusOr(tag, status) with the Status object at hand.
StatusOrOfStatus ==
  /\ \E tag \in TypeTags : sor' = StatusOrInit(tag, StatusArg(sobj))
  /\ UNCHANGED <<sobj, exc, chk>>
  /\ UNCHANGED notValue

StatusNext ==
  \/ StatusDefault \/ StatusNew \/ StatusOfException \/ StatusSetTraceback
  \/ StatusOrOfValue \/ StatusOrOfStatus

StatusSpec == Init /\ [][StatusNext]_vars

\* ================================================================ check.py
\* CheckSpec calls the DCHECK functions with small numbers, and
\* DCHECK_NOT_NONE with None as well, in debug mode and under -O.

\* The largest number a DCHECK function is called with.
MaxInt == 2
CheckInts == (0 - MaxInt)..MaxInt

\* DCHECK_EQ ends the process: in debug mode, when `arg1 != arg2`.
DcheckEqExits(arg1, arg2) == debug /\ arg1 # arg2

\* DCHECK_NOT_EQ ends the process: in debug mode, when `arg1 == arg2`.
DcheckNotEqExits(arg1, arg2) == debug /\ arg1 = arg2

\* DCHECK_NOT_NONE ends the process: in debug mode, when `val is None`.
DcheckNotNoneExits(isNone) == debug /\ isNone

\* DCHECK_LESS_THAN ends the process: in debug mode, when `val < cond_val`.
DcheckLessThanExits(val, condVal) == debug /\ val < condVal

\* A call of a DCHECK function and how it ended.
Checked(fn, val, isNone, cond, exited) ==
  [fn |-> fn, val |-> val, isNone |-> isNone, cond |-> cond,
   exited |-> exited]

notCheck == <<locals, shared, logvars, mtx, mpc, margs, mres, sobj, sor, exc>>

DcheckEq ==
  /\ \E a, b \in CheckInts :
       chk' = Checked("DCHECK_EQ", a, FALSE, b, DcheckEqExits(a, b))
  /\ UNCHANGED debug
  /\ UNCHANGED notCheck

DcheckNotEq ==
  /\ \E a, b \in CheckInts :
       chk' = Checked("DCHECK_NOT_EQ", a, FALSE, b, DcheckNotEqExits(a, b))
  /\ UNCHANGED debug
  /\ UNCHANGED notCheck

DcheckNotNone ==
  /\ \/ \E a \in CheckInts :
          chk' = Checked("DCHECK_NOT_NONE", a, FALSE, 0,
                         DcheckNotNoneExits(FALSE))
     \/ chk' = Checked("DCHECK_NOT_NONE", 0, TRUE, 0, DcheckNotNoneExits(TRUE))
  /\ UNCHANGED debug
  /\ UNCHANGED notCheck

DcheckLessThan ==
  /\ \E v, c \in CheckInts :
       chk' = Checked("DCHECK_LESS_THAN", v, FALSE, c,
                      DcheckLessThanExits(v, c))
  /\ UNCHANGED debug
  /\ UNCHANGED notCheck

DcheckGreaterThan ==
  /\ \E v, c \in CheckInts :
       chk' = Checked("DCHECK_GREATER_THAN", v, FALSE, c,
                      DcheckGreaterThanExits(v, c))
  /\ UNCHANGED debug
  /\ UNCHANGED notCheck

CheckNext ==
  \/ DcheckEq \/ DcheckNotEq \/ DcheckNotNone
  \/ DcheckLessThan \/ DcheckGreaterThan

CheckSpec == ModeInit /\ [][CheckNext]_vars

\* ================================================================ properties
CallHandlers(t) == [i \in 1..Len(calls[t]) |-> calls[t][i].handler]
IsPrefix(a, b) == Len(a) <= Len(b) /\ a = SubSeq(b, 1, Len(a))
NoDuplicates(s) == \A i, j \in 1..Len(s) : s[i] = s[j] => i = j
Index(s, h) == CHOOSE i \in 1..Len(s) : s[i] = h
Dispatching(t) == op[t] = "log" /\ pc[t] \in {"log_hacq", "log_io"}
Returned(t, name) == op[t] = name /\ pc[t] = "done"

\* C1: log() calls handle() on the handlers of its copy in list order; every
\* call before the last returned OK; a call that returns a non-OK Status is
\* the last one and its Status is what log() returns; and log() returns OK
\* only after every handler of the copy was called and returned OK.
C1_LogDispatchInOrderUntilFirstFailure ==
  \A t \in Threads :
    op[t] = "log" =>
      LET n == Len(calls[t]) IN
        /\ IsPrefix(CallHandlers(t), snap[t])
        /\ \A i \in 1..(n - 1) : Ok(calls[t][i].status)
        /\ Dispatching(t) =>
             /\ n < Len(snap[t])
             /\ \A i \in 1..n : Ok(calls[t][i].status)
        /\ (pc[t] = "done" /\ snap[t] # <<>>) =>
             /\ n >= 1
             /\ result[t] = calls[t][n].status
             /\ Ok(result[t]) => n = Len(snap[t])

\* C1 witness: log() returned the failure of the first of two handlers
\* without calling the second.
C1_Witness ==
  \E t \in Threads :
    /\ Returned(t, "log")
    /\ Len(snap[t]) = 2
    /\ Len(calls[t]) = 1
    /\ result[t] = HandlerError(snap[t][1])

\* C2: a log() that finds the list empty when it reads it returns NOT_FOUND,
\* calls no handler and leaves every handler list as it was.
C2_LogOnEmptyListReturnsNotFound ==
  [][\A t \in Threads :
       (pc[t] = "log_snap" /\ pc'[t] # "log_snap" /\ handlers[tgt[t]] = <<>>) =>
         /\ pc'[t] = "done"
         /\ result'[t] = NotFoundStatus
         /\ calls'[t] = <<>>
         /\ handlers' = handlers]_vars

\* C2 witness: log() returned NOT_FOUND on a Logger emptied by
\* close_all_handlers (a file handler was closed by it).
C2_Witness ==
  \E t \in Threads :
    /\ Returned(t, "log")
    /\ result[t] = NotFoundStatus
    /\ handlers[tgt[t]] = <<>>
    /\ \E h \in Handlers : closed[h]

\* C3: no step leaves a handler twice in a list or changes the relative order
\* of the handlers that stay; a handler that comes in comes last;
\* add_handler of a handler in the list and remove_handler of one not in the
\* list return OK and leave the list as it was.
C3_NoDuplicatesInsertionOrder ==
  [][\A l \in Loggers :
       LET old == handlers[l]
           new == handlers'[l]
           kept == Range(old) \cap Range(new)
       IN
         /\ NoDuplicates(new)
         /\ \A a, b \in kept :
              Index(old, a) < Index(old, b) <=> Index(new, a) < Index(new, b)
         /\ \A a \in Range(new) \ Range(old) :
              \A b \in kept : Index(new, b) < Index(new, a)
         /\ \A t \in Threads :
              (pc[t] = "add_body" /\ pc'[t] = "done" /\ tgt[t] = l
                 /\ Contains(old, arg[t])) =>
                (new = old /\ result'[t] = OkStatus)
         /\ \A t \in Threads :
              (pc[t] = "rm_body" /\ pc'[t] = "done" /\ tgt[t] = l
                 /\ ~Contains(old, arg[t])) =>
                (new = old /\ result'[t] = OkStatus)]_vars

\* C3 witness: two overlapping add_handler calls with the same handler both
\* returned OK, and the list, which holds another handler too, has it once.
C3_Witness ==
  \E t, u \in Threads :
    /\ t # u
    /\ Returned(t, "add_handler") /\ Returned(u, "add_handler")
    /\ tgt[t] = tgt[u] /\ arg[t] = arg[u]
    /\ Len(handlers[tgt[t]]) = 2
    /\ handlers[tgt[t]][2] = arg[t]
    /\ Ok(result[t]) /\ Ok(result[u])

\* C4: when close_all_handlers returns, close() was called on every handler
\* of the list and the list is empty.
C4_CloseAllClosesEveryHandlerAndEmpties ==
  [][\A t \in Threads :
       (op[t] = "close_all_handlers" /\ pc[t] # "done" /\ pc'[t] = "done") =>
         /\ handlers'[tgt[t]] = <<>>
         /\ Range(handlers[tgt[t]]) \subseteq Range(CallHandlers(t))]_vars

\* C5: what log() dispatches to is the list as it was when log() copied it:
\* the copy stays equal to it whatever other threads add or remove, the
\* handler being called is the next one of it, and a log() that returns OK
\* has called exactly its handlers.
C5_LogDispatchesToTheCopy ==
  \A t \in Threads :
    (op[t] = "log" /\ pc[t] \in {"log_hacq", "log_io", "done"}
       /\ atCopy[t] # <<>>) =>
      /\ snap[t] = atCopy[t]
      /\ IsPrefix(CallHandlers(t), atCopy[t])
      /\ Dispatching(t) =>
           /\ Len(calls[t]) < Len(atCopy[t])
           /\ cur[t] = atCopy[t][Len(calls[t]) + 1]
      /\ (pc[t] = "done" /\ Ok(result[t])) => CallHandlers(t) = atCopy[t]

\* C5 witness: a log() returned OK after calling a handler that was removed
\* from the list after the copy, and without calling one added after it.
C5_Witness ==
  \E t \in Threads :
    /\ Returned(t, "log")
    /\ Ok(result[t])
    /\ \E h \in Range(CallHandlers(t)) : ~Contains(handlers[tgt[t]], h)
    /\ \E h \in Range(handlers[tgt[t]]) : h \notin Range(CallHandlers(t))

\* The steps of add_handler, remove_handler, close_all_handlers and log
\* that read or change Logger._handlers.
InGuardedRegion(t) ==
  pc[t] \in {"add_body", "rm_body", "log_snap", "ca_iter", "ca_hclose", "ca_rel"}

\* C6: a thread that is about to read or change a handler list holds that
\* Logger's handler-list mutex, a handler list changes only in a step of a
\* thread that holds its mutex, and a thread inside handle() on behalf of
\* log() does not hold the handler-list mutex.
C6_ListAccessUnderMutexDispatchOutside ==
  [][/\ \A t \in Threads :
          /\ InGuardedRegion(t) => Holds(hmutex[tgt[t]], t)
          /\ Dispatching(t) => ~Holds(hmutex[tgt[t]], t)
     /\ \A l \in Loggers :
          handlers'[l] # handlers[l] =>
            \E t \in Threads :
              /\ pc'[t] # pc[t]
              /\ tgt[t] = l
              /\ Holds(hmutex[l], t)]_vars

\* C6 witness: one thread is inside handle() without the handler-list mutex
\* while another thread holds that mutex to add a handler.
C6_Witness ==
  \E t, u \in Threads :
    /\ pc[t] = "log_io"
    /\ pc[u] = "add_body"
    /\ tgt[t] = tgt[u]
    /\ Holds(hmutex[tgt[u]], u)
    /\ ~Holds(hmutex[tgt[t]], t)

\* C7: a thread that is inside a handler's handle() or close(), or holds a
\* handler's own lock, holds no Logger's handler-list mutex.
C7_NoLoggerMutexAcrossHandlerCall ==
  \A t \in Threads :
    /\ pc[t] \in {"log_hacq", "log_io", "ca_hclose"} =>
         ~Holds(hmutex[tgt[t]], t)
    /\ \A h \in Handlers :
         hlock[h] = t => \A l \in Loggers : ~Holds(hmutex[l], t)

\* Thread t is inside close_all_handlers, in handler h's close(), waiting for
\* the handler's lock.
WaitsToClose(t, h) ==
  /\ pc[t] = "ca_iter"
  /\ idx[t] < Len(handlers[tgt[t]])
  /\ handlers[tgt[t]][idx[t] + 1] = h
  /\ IsFileHandler(h)
  /\ hlock[h] # NoThread

\* C8: while a thread is inside a handler's handle(), the handler-list mutex
\* that add_handler and remove_handler need is not held by a thread that
\* waits for that handle() to finish, so they never wait for it.
C8_AddRemoveNeverWaitForHandle ==
  \A w \in Threads :
    pc[w] = "log_io" =>
      \A v \in Threads :
        Holds(hmutex[tgt[w]], v) => ~WaitsToClose(v, cur[w])

\* The thread that holds the mutex or lock thread t is waiting for, if any.
WaitsFor(t) ==
  LET other(o) == IF o = t THEN NoThread ELSE o IN
    CASE pc[t] \in {"add_acq", "rm_acq", "log_acq", "ca_acq"} ->
           other(hmutex[tgt[t]].owner)
      [] pc[t] \in {"gd_acq", "gt_acq"} -> other(instMutex.owner)
      [] pc[t] \in {"gd_racq", "gt_racq", "cl_acq"} -> other(regMutex.owner)
      [] pc[t] = "log_hacq" -> hlock[cur[t]]
      [] pc[t] = "ca_iter" /\ idx[t] < Len(handlers[tgt[t]]) ->
           IF IsFileHandler(handlers[tgt[t]][idx[t] + 1])
             THEN hlock[handlers[tgt[t]][idx[t] + 1]]
             ELSE NoThread
      [] OTHER -> NoThread

\* No set of threads in which every thread waits for a thread of the set.
NoWaitCycle ==
  \A S \in SUBSET Threads :
    S # {} => \E t \in S : WaitsFor(t) \notin S

\* C9: the threads never wait for each other in a cycle, and every method a
\* thread has called returns.
C9_NoDeadlockEveryCallReturns ==
  /\ []NoWaitCycle
  /\ \A t \in Threads : (pc[t] # "idle") ~> (pc[t] = "idle")

\* C9 witness: a thread waits in close_all_handlers, holding the
\* handler-list mutex, for a handler lock whose holder is inside handle(),
\* while that mutex is what a third method call would need.
C9_Witness ==
  \E t, u \in Threads :
    /\ WaitsFor(t) = u
    /\ pc[u] = "log_io"
    /\ Holds(hmutex[tgt[t]], t)

\* C10: get_default constructs the default Logger at most once, never
\* replaces it, and returns that one instance to every caller.
C10_DefaultLoggerIsSingleton ==
  [][/\ ctorCount' <= 1
     /\ defaultInstance # 0 => defaultInstance' = defaultInstance
     /\ \A t \in Threads :
          (op'[t] = "get_default" /\ pc'[t] = "done") =>
            (defaultInstance' = 1 /\ result'[t] = Instance(defaultInstance'))]_vars

\* C10 witness: two overlapping get_default calls returned the same
\* instance, the only one constructed.
C10_Witness ==
  \E t, u \in Threads :
    /\ t # u
    /\ Returned(t, "get_default") /\ Returned(u, "get_default")
    /\ result[t] = result[u]
    /\ result[t] = Instance(1)
    /\ ctorCount = 1

\* The thread whose step this is: every step moves exactly one thread.
Acts(t) == pc'[t] # pc[t]

\* Thread t's logger is live: get_thread_logger stored it and
\* cleanup_thread_logger has not dropped it.
Live(t) == tls[t]

\* C11: each thread's calls go to its own Logger instance: a thread's logger
\* and its handler list are created, changed and dropped by steps of that
\* thread only; get_thread_logger in a thread that has a logger constructs
\* nothing and keeps it; and log() through a thread's logger copies that
\* logger's list, so it calls no handler of another thread's list.
C11_ThreadLoggersAreSeparate ==
  [][\A t \in Threads :
       /\ (handlers'[t] # handlers[t] \/ tls'[t] # tls[t]
             \/ lname'[t] # lname[t]) => Acts(t)
       /\ (Acts(t) /\ op'[t] \in {"add_handler", "log"}) =>
            tgt'[t] = t
       /\ (Acts(t) /\ op'[t] = "get_thread_logger" /\ Live(t)) =>
            /\ Live(t)'
            /\ handlers'[t] = handlers[t]
            /\ lname'[t] = lname[t]
       /\ (Acts(t) /\ pc[t] = "log_snap") =>
            (atCopy'[t] = handlers[t]
               /\ (handlers[t] # <<>> => snap'[t] = handlers[t]))
       /\ (Acts(t) /\ op[t] = "log" /\ Len(calls'[t]) > Len(calls[t])) =>
            Contains(atCopy[t], calls'[t][Len(calls'[t])].handler)]_vars

\* C11 witness: both threads have a logger, each with one handler the other
\* does not have, and a log() through the one returned OK having called its
\* own handler only.
C11_Witness ==
  \E t, u \in Threads :
    /\ t # u /\ Live(t) /\ Live(u)
    /\ handlers[t] # <<>> /\ handlers[u] # <<>>
    /\ Range(handlers[t]) \cap Range(handlers[u]) = {}
    /\ Returned(t, "log") /\ Ok(result[t])
    /\ Range(CallHandlers(t)) = Range(handlers[t])

\* C12: cleanup_thread_logger removes the calling thread's logger from its
\* thread-local storage and that logger's entry from the registry and nothing
\* else: every registry entry it removes is the caller's own, no other
\* thread's logger is dropped, and without a logger it changes nothing.
C12_CleanupRemovesOnlyOwnEntries ==
  [][\A t \in Threads :
       (Acts(t) /\ op[t] = "cleanup_thread_logger" /\ pc[t] = "cl_del") =>
         /\ ~Live(t)'
         /\ \A u \in Threads \ {t} : Live(u)' = Live(u)
         /\ \A n \in Names :
              registry'[n] # registry[n] =>
                (registry[n] = t /\ registry'[n] = NoLogger)
         /\ \A n \in Names : registry[n] = t => registry'[n] = NoLogger]_vars

\* The thread whose step of a log.py function this is.
ActsK(t) == kpc'[t] # kpc[t]

\* The step appends to logger l's list one handler object of class k that
\* did not exist before.
AppendsNew(l, k) ==
  \E i \in Instances :
    /\ kind[i] = "none" /\ kind'[i] = k
    /\ attached'[l] = Append(attached[l], i)

\* C13: once an init_kern_logging call has returned OK, and until
\* close_kern_logging is called, a further call finds the flag set, returns
\* OK and leaves the default logger's list unchanged, and that list holds
\* exactly one console handler and at most one file handler.
C13_InitKernLoggingIsIdempotent ==
  [][/\ \A t \in Threads :
          (ActsK(t) /\ kpc[t] = "ik_check" /\ initOk) =>
            /\ kpc'[t] = "done" /\ Ok(kret'[t])
            /\ attached'[DefaultLogger] = attached[DefaultLogger]
     /\ initOk' =>
          /\ Cardinality(Consoles(attached[DefaultLogger])') = 1
          /\ Cardinality(Files(attached[DefaultLogger])') <= 1]_vars

\* C14: however often a thread calls init_thread_specific_kern_logging, its
\* logger holds the handlers one call attaches: never two console handlers.
C14_InitThreadSpecificIsIdempotent ==
  \A t \in Threads : Cardinality(Consoles(attached[ThreadLogger(t)])) <= 1

AllOpen(list) ==
  \A i \in Range(list) : kind[i] = "file" => fileOpen[i]

ListMethods == {"add_handler", "remove_handler", "close_all_handlers", "log"}

\* The codes of the Status values the list methods return.
StatusCodes == {"OK", "NOT_FOUND", "ERROR", "RUNTIME_ERROR"}

\* C17: no step of a Logger method ends in a raised exception; a handle()
\* that runs to its end returns a Status, not OK when the write failed on a
\* closed file; when handle() raises, log() returns at once the non-OK
\* Status made from that fault and calls no further handler; and every list
\* method that finishes returns a Status.
C17_NoFaultEscapesAsException ==
  [][\A t \in Threads :
       /\ pc'[t] # "raised"
       /\ (pc[t] = "log_io" /\ pc'[t] # pc[t]) =>
            /\ Len(calls'[t]) = Len(calls[t]) + 1
            /\ calls'[t][Len(calls'[t])].handler = cur[t]
            /\ calls'[t][Len(calls'[t])].status.code \in StatusCodes
            /\ closed[cur[t]] => ~Ok(calls'[t][Len(calls'[t])].status)
       /\ (pc[t] = "log_hacq" /\ pc'[t] \notin {"log_hacq", "log_io"}) =>
            /\ pc'[t] = "done"
            /\ result'[t] = FromException(cur[t])
            /\ ~Ok(result'[t])
            /\ calls'[t] = calls[t]
       /\ (pc'[t] # pc[t] /\ op[t] \in ListMethods /\ pc[t] \notin {"done", "idle"}) =>
            /\ pc'[t] = "done" => result'[t].code \in StatusCodes
            /\ pc'[t] # "idle"]_vars

\* C17 witness: log() returned the Status of a fault raised by the first
\* handler of a copy of two, the second handler not called.
C17_Witness ==
  \E t \in Threads :
    /\ op[t] = "log" /\ pc[t] = "done"
    /\ cur[t] # NoHandler
    /\ result[t] = FromException(cur[t])
    /\ Len(snap[t]) = 2 /\ idx[t] = 0 /\ calls[t] = <<>>


\* C19: a thread that is not inside a Logger method, or whose method has
\* just returned (by its normal return, by the early return of log on an
\* empty list or of close_all_handlers on a failing close(), or by way of a
\* fault raised in the guarded region), holds the handler-list mutex of no
\* logger: its hold count is 0, as it was before the call.
C19_MutexReleasedOnEveryExit ==
  \A t \in Threads :
    pc[t] \in {"idle", "done"} =>
      \A l \in Loggers : HoldCount(hmutex[l], t) = 0

\* C19 witness: close_all_handlers returned the Status of a fault raised by
\* a handler's close() inside the guarded region, and the caller does not
\* hold the mutex.
C19_Witness ==
  \E t \in Threads :
    /\ op[t] = "close_all_handlers" /\ pc[t] = "done"
    /\ cur[t] # NoHandler
    /\ result[t] = FromException(cur[t])
    /\ HoldCount(hmutex[tgt[t]], t) = 0


\* The step is thread t's call of release().
Releases(t) == mpc[t] = "idle" /\ mpc'[t] = "done"

\* C18: release() by a thread that does not hold the mutex (it is free, or
\* another thread holds it) returns FAILED_PRECONDITION and leaves owner and
\* hold count as they are; release() by the holder returns OK and takes one
\* from its hold count, freeing the mutex when the count gets to 0.
C18_ReleaseWithoutHoldingIsFailedPrecondition ==
  [][\A t \in Threads :
       Releases(t) =>
         IF mtx.owner = t /\ mtx.count > 0
           THEN /\ mres'[t] = MutexOk
                /\ mtx' = IF mtx.count = 1 THEN FreeMutex
                          ELSE [owner |-> t, count |-> mtx.count - 1]
           ELSE /\ mres'[t] = FailedPrecondition
                /\ mtx' = mtx]_vars

\* C18 witness: release() returned FAILED_PRECONDITION to a thread while
\* another thread holds the mutex.
C18_Witness ==
  \E t \in Threads :
    /\ mpc[t] = "done" /\ mres[t] = FailedPrecondition
    /\ mtx.owner \notin {t, NoThread}

\* C20: acquire(blocking=True, timeout) with a positive timeout ends by
\* returning True with the mutex acquired or False without it, and never by
\* ending the process, in debug mode and under -O.
C20_AcquireWithTimeoutReturns ==
  [][\A t \in Threads :
       (/\ mpc'[t] # mpc[t]
        /\ mpc[t] \in {"acq_check", "acq_wait"}
        /\ margs[t].blocking /\ margs[t].timeout > 0) =>
          /\ mpc'[t] # "exited"
          /\ mpc'[t] = "done" =>
               \/ mres'[t] = True /\ Holds(mtx', t)
               \/ mres'[t] = False /\ mtx' = mtx]_vars


\* C21: ok() of the Status object is true exactly when its code is OK; the
\* object Status() makes is OK, has no message and no trace and prints as
\* "OK"; and a set_traceback sets the trace and leaves code and message.
C21_StatusOkIffCodeOk ==
  [][/\ StatusOk(sobj') <=> sobj'.status_code = "OK"
     /\ exc'.name = "Status()" =>
          /\ StatusOk(sobj')
          /\ sobj'.message = Absent /\ sobj'.traceback = Absent
          /\ StatusStr(sobj') = "OK"
     /\ (exc'.name = "set_traceback" /\ sobj' # sobj) =>
          /\ sobj'.status_code = sobj.status_code
          /\ sobj'.message = sobj.message
          /\ sobj'.traceback.present]_vars

\* C21 witness: set_traceback was called on a Status that is not OK and has
\* a message: ok() is false and the trace is set.
C21_Witness ==
  /\ exc.name = "set_traceback"
  /\ sobj.status_code = "NOT_FOUND" /\ sobj.message = Text("m")
  /\ sobj.traceback = Text("trace")
  /\ ~StatusOk(sobj)

\* C22: a StatusOr made from a Status, whatever its code, is not ok(), has
\* no value and has that Status as status(); and of every StatusOr exactly
\* one holds: a value was supplied to it (None counts as a value), or its
\* status is not OK.
C22_StatusOrOfStatusIsNotOk ==
  sor.state = "object" =>
    /\ sor.arg.isStatus =>
         /\ ~StatusOrOk(sor)
         /\ sor.val = None
         /\ sor.status = sor.arg.status
    /\ ~sor.arg.isStatus <=> StatusOk(sor.status)

\* C23: StatusOr(tag, value) with a value that is neither None nor a Status
\* and is not an instance of tag ends in SystemExit with no object made;
\* with None or an instance of tag it makes an OK StatusOr whose val() is
\* the value.
C23_StatusOrTypeMismatchExits ==
  (sor.state # "none" /\ ~sor.arg.isStatus) =>
    IF sor.arg.value # None /\ sor.type \notin Mro(sor.arg.value.type)
      THEN sor.state = "exited"
      ELSE /\ sor.state = "object"
           /\ StatusOrOk(sor)
           /\ sor.val = sor.arg.value

\* C23 witness: StatusOr(int, "a string") ended in SystemExit.
C23_Witness ==
  /\ sor.state = "exited"
  /\ sor.type = "int" /\ sor.arg = ValueArg(Value("str", 0))

\* The places of the table's entries whose class the class c is or derives
\* from.
Matching(c) ==
  {i \in 1..Len(ExceptionToStatusCode) :
     ExceptionToStatusCode[i][1] \in Mro(c)}

\* C24: the code of a Status made from an exception is the table's code for
\* the exception's class when the class is a key; else the code of the
\* first entry, in declaration order, whose class the exception is an
\* instance of; and UNKNOWN only when there is no such entry.
C24_ExceptionCodeByTableOrder ==
  exc.name = "from_exception" =>
    LET T == ExceptionToStatusCode
        c == exc.exc
    IN /\ \A i \in 1..Len(T) : T[i][1] = c => sobj.status_code = T[i][2]
       /\ (\A i \in 1..Len(T) : T[i][1] # c) =>
            \A i \in Matching(c) :
              (\A j \in Matching(c) : i <= j) => sobj.status_code = T[i][2]
       /\ sobj.status_code = "UNKNOWN" <=> Matching(c) = {}

\* C24 witness: an exception of a class derived from ZeroDivisionError got
\* the code of ArithmeticError, the entry declared first.
C24_Witness ==
  /\ exc = Made("from_exception", "MyZeroDivisionError")
  /\ sobj.status_code = "ARITHMETIC_ERROR"


\* Thread t's init_kern_logging has read the flag as false and not yet
\* returned.
PastFlagCheck(t) == kpc[t] \in {"ik_console", "ik_file", "ik_mark"}

\* C25: the flag check and the attachment of init_kern_logging are atomic:
\* no two threads are past the check at a time, and when the calls of two
\* threads have both returned OK the default logger holds exactly one
\* console handler and at most one file handler.
C25_ConcurrentInitAttachesOnce ==
  \A t, u \in Threads :
    t # u =>
      /\ ~(PastFlagCheck(t) /\ PastFlagCheck(u))
      /\ (/\ kfn[t] = "init_kern_logging" /\ kpc[t] = "done" /\ Ok(kret[t])
          /\ kfn[u] = "init_kern_logging" /\ kpc[u] = "done" /\ Ok(kret[u])) =>
           /\ Cardinality(Consoles(attached[DefaultLogger])) = 1
           /\ Cardinality(Files(attached[DefaultLogger])) <= 1

\* C26: log() enters handle() and writes only on a handler whose file has
\* not been closed, whatever another thread's close_all_handlers did since
\* log() took its copy.
C26_NoHandleAfterClose ==
  [][\A t \in Threads :
       (op[t] = "log" /\ pc[t] \in {"log_hacq", "log_io"} /\ pc'[t] # pc[t]) =>
         ~closed[cur[t]]]_vars

\* The functions of log.py that work on the calling thread's logger.
ThreadSpecific ==
  {"init_thread_specific_kern_logging", "close_thread_specific_kern_logging",
   "TLOG"}

\* C27: no step of init_thread_specific_kern_logging, of
\* close_thread_specific_kern_logging or of TLOG changes the default
\* logger's handler list or the initialized flag.
C27_ThreadSpecificLeavesDefaultLogger ==
  [][\A t \in Threads :
       (ActsK(t) /\ (kfn[t] \in ThreadSpecific \/ kfn'[t] \in ThreadSpecific)) =>
         /\ attached'[DefaultLogger] = attached[DefaultLogger]
         /\ initialized' = initialized]_vars

\* The live loggers: the default instance once made, and every thread's
\* logger until cleanup_thread_logger drops it.
LiveLoggers ==
  {l \in {DefaultLogger} : defaultInstance # 0}
    \cup {ThreadLogger(t) : t \in {u \in Threads : Live(u)}}

\* C28: the registry maps the name of every live logger to that logger's own
\* list, and no two live loggers have the same name.
C28_RegistryConsistent ==
  /\ \A l \in LiveLoggers : registry[lname[l]] = l
  /\ \A l, m \in LiveLoggers : l # m => lname[l] # lname[m]

\* The list without its i-th element.
RemoveAt(list, i) == SubSeq(list, 1, i - 1) \o SubSeq(list, i + 1, Len(list))

\* The logger an init function of log.py attaches to.
InitTarget(t) ==
  IF kfn[t] = "init_kern_logging" THEN DefaultLogger ELSE ThreadLogger(t)

\* C29: an init function that returns a non-OK Status after its console
\* handler was attached leaves the target logger's list as it was before
\* the call: the console handler the call attached is not in it any more.
C29_FailedInitLeavesNoHandlers ==
  [][\A t \in Threads :
       (/\ ActsK(t) /\ kpc[t] \in {"ik_file", "it_file"}
        /\ kpc'[t] = "done" /\ ~Ok(kret'[t])) =>
         \E i \in Consoles(attached[InitTarget(t)]) :
           attached'[InitTarget(t)] = RemoveAt(attached[InitTarget(t)], i)]_vars


\* C30: a DCHECK function ends the process exactly when the interpreter is
\* in debug mode and the condition in its name does not hold:
\* DCHECK_GREATER_THAN when val is not greater than the bound,
\* DCHECK_LESS_THAN when val is not less than it, DCHECK_EQ when the values
\* differ, DCHECK_NOT_NONE when val is None; under -O none of them does.
C30_DcheckExitsIffConditionViolated ==
  /\ chk.fn = "DCHECK_GREATER_THAN" =>
       (chk.exited <=> (debug /\ ~(chk.val > chk.cond)))
  /\ chk.fn = "DCHECK_LESS_THAN" =>
       (chk.exited <=> (debug /\ ~(chk.val < chk.cond)))
  /\ chk.fn = "DCHECK_EQ" =>
       (chk.exited <=> (debug /\ chk.val # chk.cond))
  /\ chk.fn = "DCHECK_NOT_NONE" =>
       (chk.exited <=> (debug /\ chk.isNone))
  /\ ~debug => ~chk.exited

====
